---- MODULE Spec2Model ----
(***************************************************************************)
(* Model of the aegis-pilot disaster-recovery control plane.               *)
(*                                                                         *)
(* Part I  : the failover controller (FailoverService), as a set of        *)
(*           concurrently running Lambda invocations sharing one DynamoDB  *)
(*           table.  Every await on a remote call is an interleaving       *)
(*           point.                                                        *)
(* Part II : the data validator's run_validation aggregation.              *)
(*                                                                         *)
(* Strings that are formatted into messages are sequences of one-character *)
(* strings, so that `contains` is a real substring search.  Strings that   *)
(* are only compared for equality are TLA+ strings.  An Option<T> is a set *)
(* with at most one element.                                               *)
(***************************************************************************)
EXTENDS Integers, Sequences, FiniteSets, TLC

VARIABLES
    fbuild,     \* which copy of FailoverService handles the requests: the one
                \* compiled into the binary (main.rs) or the library's (lib.rs)
    fenv,       \* per invocation: AWS_REGION as the invocation finds it (an Option)
    store,      \* DynamoDB: table name -> set of items
    now,        \* the wall clock (seconds)
    pc,         \* per invocation: "idle", "probing", "writing", "done"
    req,        \* per invocation: the Request payload of the event
    probe,      \* per invocation: outcome of its list_tables call ("none" if not made)
    put,        \* per invocation: outcome of its put_item call ("none" if not made)
    sent,       \* per invocation: the items it handed to put_item (at most one)
    result,     \* per invocation: the Result<Response, Error> returned
    lastPut,    \* history: the item of the most recent put_item that succeeded
    before,     \* history, per invocation in flight: the failover table as it was when
                \* the invocation began, brought up to date with the writes of the others
    vpc,        \* run_validation: "idle", "tables", "lag" (the sentinel's put_item
                \* in flight), "lag_wait", "lag_poll", "lag_sleep", "lag_delete",
                \* "backups", "publish" (the first put_metric_data in flight),
                \* "publish_mismatches" (the second), "done"
    vbuild,     \* run_validation: the build, "debug" (overflow checks) or "release"
    vreq,       \* run_validation: validation_mode, table_name, action
    vtables,    \* run_validation: the tables of tables_to_validate not yet visited
    vtotals,    \* run_validation: total_records, total_mismatches, tables synced
    vvalidations, \* run_validation: the Vec validations
    vlag,       \* run_validation: replication_lag
    vlagcall,   \* check_replication_lag in progress: the turns of its loop
                \* begun and its local lag
    vbackup,    \* run_validation: backup_status
    vmetrics,   \* CloudWatch: the metric data accepted from this run
    vreport,    \* run_validation: what the run ended with (a response, or a panic)
    vhist,      \* history: what the two regions answered and what
                \* validate_table_data returned for each table visited,
                \* the calls of check_replication_lag this run made, whether
                \* validate_backups failed, the metrics it tried to publish, and
                \* the writes it sent to the two regions
    pcase,      \* a function applied on its own: which one ("none" when idle)
    pin,        \* a function applied on its own: its arguments
    pout,       \* a function applied on its own: what it returned (empty before the call)
    hpc,        \* run_health_check: "idle", "dynamodb", "s3", "lag", "publish", "done"
    henv,       \* health check: AWS_REGION of the function, the region its clients use
    hworld,     \* health check: for each region, whether its DynamoDB endpoint answers
    hreq,       \* health check: the Request payload (region, an Option)
    hsvc,       \* run_health_check: dynamodb_health, s3_health, replication_lag
    hcalls,     \* history: the outcome of each remote call run_health_check made
    hmetrics,   \* CloudWatch: the metric data accepted from this health check
    hresp,      \* run_health_check: the Result<Response, Error> returned
    lpc,        \* check_replication_lag: "idle", "put", "wait", "poll", "sleep",
                \* "delete", "done"
    lnow,       \* check_replication_lag: the wall clock (seconds)
    lstart,     \* check_replication_lag: start_time (an Option)
    lattempts,  \* check_replication_lag: the get_item calls made by the loop
    llag,       \* check_replication_lag: lag
    lresult,    \* check_replication_lag: the Result<Option<i64>> returned
    lhist,      \* history: when the sentinel was written and first read, the time
                \* slept, the outcomes of the delete_item calls
    mstore,     \* DynamoDB of the primary region: table name -> set of items, with
                \* the type of each timestamp attribute
    mbucket,    \* S3: the objects held, each the bucket it is in and its key
    mnow,       \* the wall clock read by the backup manager and validate_backups
    bpc,        \* run_backup: "idle", "scanning", "uploading", "recording", "done"
    breq,       \* run_backup: table_name, backup_type
    bid,        \* create_backup: backup_id (an Option)
    bcount,     \* create_backup: items.len() so far
    bresp,      \* run_backup: the Result<Response, Error> returned
    bhist,      \* history: the pages scanned, the metadata table when run_backup
                \* began, whether the upload and the metadata write succeeded
    wstatus,    \* the backup_status of the most recent validation, with (history)
                \* when its scan ran and the items the scan returned
    bsent,      \* update_backup_metadata: the item handed to put_item (an Option)
    mput,       \* update_failover_status: the put_item in flight, its table and
                \* item (an Option)
    benv        \* the environment of the backup manager: METADATA_TABLE and
                \* BACKUP_BUCKET, each an Option, as the function is configured

fvars == <<fbuild, fenv, store, now, pc, req, probe, put, sent, result, lastPut, before>>
vvars == <<vpc, vbuild, vreq, vtables, vtotals, vvalidations, vlag, vlagcall, vbackup,
           vmetrics, vreport, vhist>>
pvars == <<pcase, pin, pout>>
hvars == <<hpc, henv, hworld, hreq, hsvc, hcalls, hmetrics, hresp>>
lvars == <<lpc, lnow, lstart, lattempts, llag, lresult, lhist>>
bvars == <<mstore, mbucket, mnow, bpc, breq, bid, bcount, bresp, bhist, wstatus,
           bsent, mput, benv>>
vars == <<fbuild, fenv, store, now, pc, req, probe, put, sent, result, lastPut, before,
          vpc, vbuild, vreq, vtables, vtotals, vvalidations, vlag, vlagcall, vbackup,
          vmetrics, vreport, vhist, pcase, pin, pout,
          hpc, henv, hworld, hreq, hsvc, hcalls, hmetrics, hresp,
          lpc, lnow, lstart, lattempts, llag, lresult, lhist,
          mstore, mbucket, mnow, bpc, breq, bid, bcount, bresp, bhist, wstatus,
          bsent, mput, benv>>

(***************************************************************************)
(* Bounds                                                                  *)
(***************************************************************************)
MaxClock == 1

(***************************************************************************)
(* String literals                                                         *)
(***************************************************************************)
SFailover == <<"f", "a", "i", "l", "o", "v", "e", "r">>
SFailback == <<"f", "a", "i", "l", "b", "a", "c", "k">>
SRollback == <<"r", "o", "l", "l", "b", "a", "c", "k">>
SFailoverUpper == <<"F", "A", "I", "L", "O", "V", "E", "R">>
SUsEast1 == <<"u", "s", "-", "e", "a", "s", "t", "-", "1">>
SUsWest2 == <<"u", "s", "-", "w", "e", "s", "t", "-", "2">>
SUs == <<"u", "s">>
SNotHealthy == <<"n", "o", "t", " ", "h", "e", "a", "l", "t", "h", "y">>
STargetRegion == <<"T", "a", "r", "g", "e", "t", " ", "r", "e", "g", "i", "o", "n", " ">>
SIsNotHealthy == <<" ", "i", "s", " ", "n", "o", "t", " ", "h", "e", "a", "l", "t", "h", "y">>
SFailoverTo == <<"F", "a", "i", "l", "o", "v", "e", "r", " ", "t", "o", " ", "r", "e", "g", "i", "o", "n", " ">>
SFailbackTo == <<"F", "a", "i", "l", "b", "a", "c", "k", " ", "t", "o", " ", "r", "e", "g", "i", "o", "n", " ">>
SCompleted == <<" ", "c", "o", "m", "p", "l", "e", "t", "e", "d">>
SInvalidAction == <<"I", "n", "v", "a", "l", "i", "d", " ", "a", "c", "t", "i", "o", "n", ":", " ">>

\* str::contains(&str): sub occurs in s as a contiguous run
Contains(s, sub) ==
    \E k \in 0..(Len(s) - Len(sub)) :
        \A j \in 1..Len(sub) : s[k + j] = sub[j]

\* str::contains(char)
ContainsChar(s, c) == \E k \in 1..Len(s) : s[k] = c

(***************************************************************************)
(* Inputs                                                                  *)
(***************************************************************************)
Invocations == {1, 2}
ActionStrings == {SFailover, SFailback, SRollback, SFailoverUpper, <<>>}
RegionStrings == {SUsEast1, SUsWest2, SUs, <<>>}
Sequential == {1}
RacingRequests ==
    [action : {SFailover, SFailback}, target_region : {SUsEast1, SUsWest2},
     force : {{FALSE}, {TRUE}}]
ForceOptions == {{}, {FALSE}, {TRUE}}
Requests == [action : ActionStrings, target_region : RegionStrings, force : ForceOptions]
ListTablesOutcomes == {"ok", "error", "timeout"}
PutItemOutcomes == {"ok", "error"}

\* std::env::var("AWS_REGION"): set by the Lambda runtime, absent elsewhere
CurrentRegion == SUsEast1
Environments == {{}, {CurrentRegion}}

NoRequest == [action |-> <<>>, target_region |-> <<>>, force |-> {}]
NoResult == [ok |-> FALSE, error |-> "none"]

(***************************************************************************)
(* FailoverService                                                         *)
(***************************************************************************)
MetadataTable == "dr-backup-metadata"
BinaryStatusTable == "dr-metadata"
FailoverBuilds == {"library", "binary"}

\* update_failover_status: the table it writes to and the key attribute of
\* the item, in the library and in the binary
StatusTable(build) == IF build = "library" THEN MetadataTable ELSE BinaryStatusTable
StatusKeyName(build) == IF build = "library" THEN "backup_id" ELSE "id"

\* the table the service that handles the requests writes to
FailoverTable == StatusTable(fbuild)
TableNames == {"dr-backup-metadata", "dr-metadata"}

\* event.payload.force.unwrap_or(false)
UnwrapOrFalse(force) == IF force = {} THEN FALSE ELSE CHOOSE b \in force : TRUE

validate_action(action) == action \in {SFailover, SFailback}

validate_region(region) == region # <<>> /\ ContainsChar(region, "-")

\* mutant: the match ignores the case of the action
HandleRequestArm_IgnoreCase(action) ==
    IF action \in {SFailover, SFailoverUpper} THEN "failover"
    ELSE IF action = SFailback THEN "failback"
    ELSE "invalid"

\* the match of handle_request: which arm is taken
HandleRequestArm(action) ==
    IF action = SFailover THEN "failover"
    ELSE IF action = SFailback THEN "failback"
    ELSE "invalid"

\* mutant: a failed listing call is returned as an error
check_health_Propagates(list_outcome) ==
    [ok |-> (list_outcome = "ok"), value |-> (list_outcome = "ok")]

\* check_health: Result<bool, Error> from the outcome of list_tables().send()
check_health(list_outcome) == [ok |-> TRUE, value |-> (list_outcome = "ok")]

\* Utc::now().to_rfc3339()
Rfc3339(t) == <<"rfc3339", t>>

\* mutant: source and target region are exchanged
FailoverItem_Swapped(to_region, action, t) ==
    [key_name |-> StatusKeyName(fbuild), key |-> "failover_status", timestamp |-> t,
     action |-> action, source_region |-> to_region,
     target_region |-> CurrentRegion, status |-> "completed"]

\* the item update_failover_status of a build hands to put_item
StatusRecord(build, to_region, action, t) ==
    [key_name |-> StatusKeyName(build), key |-> "failover_status", timestamp |-> t,
     action |-> action, source_region |-> CurrentRegion,
     target_region |-> to_region, status |-> "completed"]

\* the item the service that handles the requests hands to put_item
FailoverItem(to_region, action, t) == StatusRecord(fbuild, to_region, action, t)

\* mutant: the item is added beside the items already there (a log)
PutItem_Append(items, item) == items \cup {item}

\* mutant: only the attributes action and timestamp of an existing item are
\* updated (an UpdateItem)
PutItem_Merge(items, item) ==
    IF \E x \in items : x.key_name = item.key_name /\ x.key = item.key
    THEN {IF x.key_name = item.key_name /\ x.key = item.key
          THEN [x EXCEPT !.action = item.action, !.timestamp = item.timestamp]
          ELSE x : x \in items}
    ELSE items \cup {item}

\* DynamoDB PutItem: the item replaces the item with the same primary key
PutItem(items, item) ==
    {x \in items : ~(x.key_name = item.key_name /\ x.key = item.key)} \cup {item}

\* the tag execute_failover / execute_failback pass on, and their messages
ExecuteTag(arm) == IF arm = "failover" THEN SFailover ELSE SFailback
CompletedPrefix(arm) == IF arm = "failover" THEN SFailoverTo ELSE SFailbackTo

NotHealthyResponse(arm, target_region, t) ==
    [ok |-> TRUE, status |-> "failed",
     message |-> STargetRegion \o target_region \o SIsNotHealthy,
     action |-> ExecuteTag(arm), timestamp |-> Rfc3339(t)]

SuccessResponse(arm, target_region, t) ==
    [ok |-> TRUE, status |-> "success",
     message |-> CompletedPrefix(arm) \o target_region \o SCompleted,
     action |-> ExecuteTag(arm), timestamp |-> Rfc3339(t)]

InvalidActionResponse(action, t) ==
    [ok |-> TRUE, status |-> "failed",
     message |-> SInvalidAction \o action,
     action |-> action, timestamp |-> Rfc3339(t)]

\* the `?` on a failed call: the raw error leaves handle_request / function_handler
Propagate(what) == [ok |-> FALSE, error |-> what]

\* mutant: the health check is made whatever force is
ExecuteGate_AlwaysProbe(force) == "probe"

\* execute_failover / execute_failback, the gate: "probe" or "write"
ExecuteGate(force) == IF ~force THEN "probe" ELSE "write"

\* mutant: the result of the health check is not looked at
AfterProbe_NoGate(health) == IF ~health.ok THEN "error" ELSE "write"

\* mutant: a probe that did not error lets the write go ahead only when it
\* found the region unhealthy
AfterProbe_Inverted(health) ==
    IF ~health.ok THEN "error"
    ELSE IF health.value THEN "reject"
    ELSE "write"

\* execute_failover / execute_failback after check_health(...).await? :
\* "error" (propagate), "reject" (not healthy) or "write"
AfterProbe(health) ==
    IF ~health.ok THEN "error"
    ELSE IF ~health.value THEN "reject"
    ELSE "write"

\* mutant: the error of update_failover_status is swallowed
AfterPut_AlwaysSuccess(arm, target_region, put_outcome, t) ==
    SuccessResponse(arm, target_region, t)

\* execute_failover / execute_failback after update_failover_status(...).await?
AfterPut(arm, target_region, put_outcome, t) ==
    IF put_outcome = "ok" THEN SuccessResponse(arm, target_region, t)
    ELSE Propagate("put_item")

(***************************************************************************)
(* Failover controller: the invocations                                    *)
(***************************************************************************)
\* function_handler up to its first remote call: FailoverService::new()?
\* fails when AWS_REGION is not set, before handle_request is called
Invoke(i, r, env) ==
    /\ pc[i] = "idle"
    /\ LET force == UnwrapOrFalse(r.force)
           arm == HandleRequestArm(r.action)
       IN  /\ req' = [req EXCEPT ![i] = r]
           /\ fenv' = [fenv EXCEPT ![i] = env]
           /\ probe' = [probe EXCEPT ![i] = "none"]
           /\ put' = [put EXCEPT ![i] = "none"]
           /\ before' = [before EXCEPT ![i] = store[FailoverTable]]
           /\ IF env = {}
              THEN /\ pc' = [pc EXCEPT ![i] = "done"]
                   /\ result' = [result EXCEPT ![i] = Propagate("AWS_REGION")]
                   /\ sent' = [sent EXCEPT ![i] = {}]
              ELSE IF arm = "invalid"
              THEN /\ pc' = [pc EXCEPT ![i] = "done"]
                   /\ result' = [result EXCEPT ![i] = InvalidActionResponse(r.action, now)]
                   /\ sent' = [sent EXCEPT ![i] = {}]
              ELSE IF ExecuteGate(force) = "probe"
              THEN /\ pc' = [pc EXCEPT ![i] = "probing"]
                   /\ result' = [result EXCEPT ![i] = NoResult]
                   /\ sent' = [sent EXCEPT ![i] = {}]
              ELSE /\ pc' = [pc EXCEPT ![i] = "writing"]
                   /\ result' = [result EXCEPT ![i] = NoResult]
                   /\ sent' = [sent EXCEPT ![i] =
                                 {FailoverItem(r.target_region, ExecuteTag(arm), now)}]
    /\ UNCHANGED <<fbuild, store, now, lastPut>>
    /\ UNCHANGED <<vvars, pvars, hvars, lvars, bvars>>

\* list_tables().send() of check_health completes
ProbeReturns(i, outcome) ==
    /\ pc[i] = "probing"
    /\ LET arm == HandleRequestArm(req[i].action)
           next == AfterProbe(check_health(outcome))
       IN  /\ probe' = [probe EXCEPT ![i] = outcome]
           /\ IF next = "error"
              THEN /\ pc' = [pc EXCEPT ![i] = "done"]
                   /\ result' = [result EXCEPT ![i] = Propagate("check_health")]
                   /\ UNCHANGED sent
              ELSE IF next = "reject"
              THEN /\ pc' = [pc EXCEPT ![i] = "done"]
                   /\ result' = [result EXCEPT ![i] =
                                   NotHealthyResponse(arm, req[i].target_region, now)]
                   /\ UNCHANGED sent
              ELSE /\ pc' = [pc EXCEPT ![i] = "writing"]
                   /\ sent' = [sent EXCEPT ![i] =
                                 {FailoverItem(req[i].target_region, ExecuteTag(arm), now)}]
                   /\ UNCHANGED result
    /\ UNCHANGED <<fbuild, fenv, store, now, req, put, lastPut, before>>
    /\ UNCHANGED <<vvars, pvars, hvars, lvars, bvars>>

\* put_item().send() of update_failover_status completes
PutReturns(i, outcome) ==
    /\ pc[i] = "writing"
    /\ LET arm == HandleRequestArm(req[i].action)
           item == CHOOSE x \in sent[i] : TRUE
       IN  /\ put' = [put EXCEPT ![i] = outcome]
           /\ pc' = [pc EXCEPT ![i] = "done"]
           /\ result' = [result EXCEPT ![i] =
                           AfterPut(arm, req[i].target_region, outcome, now)]
           /\ IF outcome = "ok"
              THEN /\ store' = [store EXCEPT ![FailoverTable] = PutItem(@, item)]
                   /\ lastPut' = {item}
                   /\ before' = [j \in Invocations |->
                                   IF j # i /\ pc[j] # "idle"
                                   THEN PutItem(store[FailoverTable], item)
                                   ELSE before[j]]
              ELSE UNCHANGED <<store, lastPut, before>>
    /\ UNCHANGED <<fbuild, fenv, now, req, probe, sent>>
    /\ UNCHANGED <<vvars, pvars, hvars, lvars, bvars>>

\* the invocation's result has been delivered; the slot serves the next event
Return(i) ==
    /\ pc[i] = "done"
    /\ pc' = [pc EXCEPT ![i] = "idle"]
    /\ req' = [req EXCEPT ![i] = NoRequest]
    /\ probe' = [probe EXCEPT ![i] = "none"]
    /\ put' = [put EXCEPT ![i] = "none"]
    /\ sent' = [sent EXCEPT ![i] = {}]
    /\ result' = [result EXCEPT ![i] = NoResult]
    /\ before' = [before EXCEPT ![i] = {}]
    /\ fenv' = [fenv EXCEPT ![i] = {}]
    /\ UNCHANGED <<fbuild, store, now, lastPut>>
    /\ UNCHANGED <<vvars, pvars, hvars, lvars, bvars>>

Tick ==
    /\ now < MaxClock
    /\ now' = now + 1
    /\ UNCHANGED <<fbuild, fenv, store, pc, req, probe, put, sent, result, lastPut, before>>
    /\ UNCHANGED <<vvars, pvars, hvars, lvars, bvars>>

FailoverStart(builds) ==
    /\ fbuild \in builds
    /\ fenv = [i \in Invocations |-> {}]
    /\ store = [t \in TableNames |-> {}]
    /\ now = 0
    /\ pc = [i \in Invocations |-> "idle"]
    /\ req = [i \in Invocations |-> NoRequest]
    /\ probe = [i \in Invocations |-> "none"]
    /\ put = [i \in Invocations |-> "none"]
    /\ sent = [i \in Invocations |-> {}]
    /\ result = [i \in Invocations |-> NoResult]
    /\ lastPut = {}
    /\ before = [i \in Invocations |-> {}]

\* the failover controller before any request, handled by either copy of the
\* service, and the deployed function (the binary) standing by
FailoverInit == FailoverStart(FailoverBuilds)
FailoverIdle == FailoverStart({"binary"})

(***************************************************************************)
(* DataValidatorService::run_validation                                    *)
(*                                                                         *)
(* A usize that the subtraction total_records - total_mismatches may have  *)
(* wrapped is the pair [hi, lo] standing for hi * 2^64 + lo, with hi in    *)
(* {0, 1} and lo negative when hi = 1 (2^64 itself is out of TLC's range). *)
(* The f64 consistency_score is [hi, num, den], standing for               *)
(* ((hi * 2^64 + num) / den) * 100.                                        *)
(***************************************************************************)
ValidationModes == {"full", "incremental", "specific"}
ActionTypes == {"validate", "sync"}
Builds == {"debug", "release"}
AppTable == "dr-application-table"
SentinelTable == "dr-sentinel-table"
TableOptions == {{}, {AppTable}, {SentinelTable}}
ValidationRequests ==
    [validation_mode : ValidationModes, table_name : TableOptions, action : ActionTypes]

\* (primary_count, dr_count) as describe_table reports them
CountPairs == {<<0, 0>>, <<0, 10>>, <<100, 100>>, <<100, 90>>, <<10, 100>>}

\* describe_table for one region: an error, or the table's item_count (an Option)
ItemCounts == {0, 10, 90, 100}
CountOutcomes == [ok : {FALSE}] \cup [ok : {TRUE}, item_count : {{}} \cup {{n} : n \in ItemCounts}]
CountErr == [ok |-> FALSE]
CountOk(n) == [ok |-> TRUE, item_count |-> {n}]

\* an item of the primary scan: its "id" attribute when it is a string, and what
\* the DR region answers to get_item for that key ("none": no lookup is made)
SItem == <<"I", "t", "e", "m", " ">>
SNotFoundInDr == <<" ", "n", "o", "t", " ", "f", "o", "u", "n", "d", " ", "i", "n", " ", "D", "R">>
ItemIds == {<<"a">>, <<"b">>}
LookupOutcomes == {"found", "not_found", "error"}
SampledItems ==
    [id : {{}}, lookup : {"none"}] \cup [id : {{i} : i \in ItemIds}, lookup : LookupOutcomes]
Sampled(i, lookup) == [id |-> {i}, lookup |-> lookup]
\* the items one scan page carries in the model (the scan asks for at most 10)
MaxSample == 2
ScanPages == UNION {[1..k -> SampledItems] : k \in 0..MaxSample}
\* scan of the primary table: an error, or a page whose items field is an Option
ScanOutcomes == [ok : {FALSE}] \cup [ok : {TRUE}, items : {{}} \cup {{page} : page \in ScanPages}]
ScanErr == [ok |-> FALSE]
ScanOk(page) == [ok |-> TRUE, items |-> {page}]

\* everything the two regions answer while one table is validated
TableObservations ==
    [primary_count : CountOutcomes, dr_count : CountOutcomes, scan : ScanOutcomes]

\* the observations run_validation is explored with
SampledScans ==
    {<<>>,
     <<Sampled(<<"a">>, "not_found"), Sampled(<<"b">>, "not_found")>>,
     <<Sampled(<<"a">>, "found"), Sampled(<<"b">>, "error")>>}
RunObservations ==
    {[primary_count |-> CountErr, dr_count |-> CountOk(0), scan |-> ScanOk(<<>>)],
     [primary_count |-> CountOk(100), dr_count |-> CountErr, scan |-> ScanOk(<<>>)],
     [primary_count |-> CountOk(100), dr_count |-> CountOk(90), scan |-> ScanErr]}
    \cup
    {[primary_count |-> CountOk(c[1]), dr_count |-> CountOk(c[2]), scan |-> ScanOk(page)] :
         c \in CountPairs, page \in SampledScans}
\* a remote call whose answer carries nothing the run uses: Ok or Err
CallOutcomes == {"ok", "error"}

\* check_replication_lag: its waits, its loop and its result
\* the longest a remote call takes, in seconds
MaxLatency == 1
\* for _ in 0..10
MaxAttempts == 10
\* tokio::time::sleep(Duration::from_secs(2)) before start_time is taken
InitialWait == 2
\* tokio::time::sleep(Duration::from_secs(1)) after an attempt that saw nothing
PollInterval == 1
Latencies == 0..MaxLatency
\* get_item of the sentinel in DR: Ok with the item, Ok without it, or Err
PollOutcomes == {"found", "missing", "error"}
NoLagHistory ==
    [put |-> "none", written |-> {}, seen |-> {}, found_at |-> {}, waited |-> 0,
     deletes |-> <<>>]

\* variant: the range of the loop includes its upper end
KeepPolling_Inclusive(attempts) == attempts <= MaxAttempts

\* for _ in 0..10: whether another turn of the loop begins
KeepPolling(attempts) == attempts < MaxAttempts

\* variant: the error of delete_item is returned
LagResult_DeletePropagates(lag, delete_outcome) ==
    IF delete_outcome = "ok" THEN [ok |-> TRUE, lag |-> lag] ELSE [ok |-> FALSE]

\* let _ = delete_item...await; Ok(lag)
LagResult(lag, delete_outcome) == [ok |-> TRUE, lag |-> lag]

\* (Utc::now() - start_time).num_seconds()
ElapsedSince(start_time, t) == t - start_time

\* (Utc::now() - start_time).num_seconds() when get_item finds the sentinel
MeasuredLags == {5, 61}
NoLagCall == [attempts |-> 0, lag |-> {}]
\* what validate_backups returns; ages in seconds
BackupStatuses ==
    {[last_backup_age_secs |-> {}, backup_count |-> 0, oldest_backup_age_secs |-> {}],
     [last_backup_age_secs |-> {7200}, backup_count |-> 1, oldest_backup_age_secs |-> {7200}],
     [last_backup_age_secs |-> {90000}, backup_count |-> 2, oldest_backup_age_secs |-> {2678400}]}
BackupOutcomes == [ok : {FALSE}] \cup [ok : {TRUE}, status : BackupStatuses]
PublishOutcomes == {"ok", "error"}

NoValidationRequest == [validation_mode |-> "incremental", table_name |-> {}, action |-> "validate"]
NoBackupStatus == [last_backup_age_secs |-> {}, backup_count |-> 0, oldest_backup_age_secs |-> {}]
NoHistory ==
    [sampled |-> <<>>, lag_calls |-> 0, lag_failed |-> FALSE, backup_failed |-> FALSE,
     published |-> <<>>, writes |-> <<>>, observed |-> <<>>]

ConsistencyThreshold == 95
LagThreshold == 60
BackupAgeHoursThreshold == 24
OldestBackupDaysThreshold == 30

default_tables == <<AppTable, SentinelTable>>

\* table_name.map(|name| vec![name]).unwrap_or_else(Self::default_tables)
TablesToValidate(table_name) ==
    IF table_name = {} THEN default_tables ELSE <<CHOOSE t \in table_name : TRUE>>

\* usize::abs_diff
AbsDiff(a, b) == IF a >= b THEN a - b ELSE b - a

\* variant: the sampled mismatches are left out of the table's count
TableMismatches_CountsOnly(v) == AbsDiff(v.primary_count, v.dr_count)

\* validation.primary_count.abs_diff(validation.dr_count) + validation.sample_mismatches.len()
TableMismatches(v) == AbsDiff(v.primary_count, v.dr_count) + Len(v.sample_mismatches)

\* usize subtraction without overflow checks: wraps modulo 2^64
WrappingSub(a, b) == IF a >= b THEN [hi |-> 0, lo |-> a - b] ELSE [hi |-> 1, lo |-> a - b]

\* usize subtraction as the build compiles it: "panic" with overflow checks
\* (debug), the wrapped value without them (release)
UsizeSub(build, a, b) ==
    IF a < b /\ build = "debug" THEN [panic |-> TRUE, hi |-> 0, lo |-> 0]
    ELSE [panic |-> FALSE, hi |-> WrappingSub(a, b).hi, lo |-> WrappingSub(a, b).lo]

\* variant: an empty run scores 0.0
ConsistencyScore_ZeroWhenEmpty(build, total_records, total_mismatches) ==
    IF total_records > 0
    THEN LET d == UsizeSub(build, total_records, total_mismatches)
         IN  [panic |-> d.panic, hi |-> d.hi, num |-> d.lo, den |-> total_records]
    ELSE [panic |-> FALSE, hi |-> 0, num |-> 0, den |-> 1]

\* if total_records > 0 { ((total_records - total_mismatches) as f64
\*                         / total_records as f64) * 100.0 } else { 100.0 }
ConsistencyScore(build, total_records, total_mismatches) ==
    IF total_records > 0
    THEN LET d == UsizeSub(build, total_records, total_mismatches)
         IN  [panic |-> d.panic, hi |-> d.hi, num |-> d.lo, den |-> total_records]
    ELSE [panic |-> FALSE, hi |-> 0, num |-> 1, den |-> 1]

\* score >= k and score <= k for a whole number k of percent; a wrapped
\* numerator is at least 2^64 - 2^31 and exceeds every k * den / 100
ScoreGeq(score, k) == score.hi = 1 \/ 100 * score.num >= k * score.den
ScoreLeq(score, k) == score.hi = 0 /\ 100 * score.num <= k * score.den
ScoreLess(score, k) == ~ScoreGeq(score, k)

\* the messages of generate_recommendations, with the placeholder of the
\* formatted value left in place
MsgConsistency ==
    "Data consistency is below 95% ({:.1}%). Investigate mismatches immediately."
MsgLag ==
    "Replication lag is {} seconds. Consider investigating DynamoDB Global Tables health."
MsgLastBackup == "Last backup is {:.1} hours old. Consider running a manual backup."
MsgRetention == "Oldest backup is {:.0} days old. Consider reviewing retention policy."
MsgAllClear == "All validation checks passed. System is healthy."

\* the four rules of generate_recommendations, each on its own
ConsistencyRule(results) ==
    IF ScoreLess(results.consistency_score, ConsistencyThreshold)
    THEN <<MsgConsistency>> ELSE <<>>
LagRule(results) ==
    IF \E lag \in results.replication_lag_seconds : lag > LagThreshold
    THEN <<MsgLag>> ELSE <<>>
LastBackupRule(results) ==
    IF \E age \in results.backup_status.last_backup_age_secs :
           age > BackupAgeHoursThreshold * 3600
    THEN <<MsgLastBackup>> ELSE <<>>
RetentionRule(results) ==
    IF \E age \in results.backup_status.oldest_backup_age_secs :
           age > OldestBackupDaysThreshold * 86400
    THEN <<MsgRetention>> ELSE <<>>

\* variant: the all-clear message is pushed without looking at the list
generate_recommendations_AlwaysAllClear(results) ==
    ConsistencyRule(results) \o LagRule(results) \o LastBackupRule(results)
        \o RetentionRule(results) \o <<MsgAllClear>>

\* variant: the rules are chained with else, so only the first that fires speaks
generate_recommendations_FirstOnly(results) ==
    IF ConsistencyRule(results) # <<>> THEN ConsistencyRule(results)
    ELSE IF LagRule(results) # <<>> THEN LagRule(results)
    ELSE IF LastBackupRule(results) # <<>> THEN LastBackupRule(results)
    ELSE IF RetentionRule(results) # <<>> THEN RetentionRule(results)
    ELSE <<MsgAllClear>>

\* generate_recommendations: the rules that fired, in order
generate_recommendations(results) ==
    LET fired == ConsistencyRule(results) \o LagRule(results)
                     \o LastBackupRule(results) \o RetentionRule(results)
    IN  IF fired = <<>> THEN <<MsgAllClear>> ELSE fired

\* variant: the threshold itself is not healthy
ValidationStatus_Strict(score) ==
    IF ScoreGeq(score, ConsistencyThreshold) /\ ~ScoreLeq(score, ConsistencyThreshold)
    THEN "healthy" ELSE "degraded"

\* if results.consistency_score >= 95.0 { Healthy } else { Degraded }
ValidationStatus(score) ==
    IF ScoreGeq(score, ConsistencyThreshold) THEN "healthy" ELSE "degraded"

\* publish_single_metric: the datum CloudWatch holds once it accepted the call
PublishedMetric(name, value, outcome) ==
    IF outcome = "ok" THEN <<[name |-> name, value |-> value]>> ELSE <<>>

\* get_table_item_count: result.table.and_then(|t| t.item_count).unwrap_or(0)
get_table_item_count(o) ==
    IF o.item_count = {} THEN 0 ELSE CHOOSE n \in o.item_count : TRUE

\* format!("Item {} not found in DR", id)
NotFoundMessage(id) == SItem \o id \o SNotFoundInDr

\* the loop over the scanned items: an item with a string id that DR answers
\* Ok(None) for pushes one message; Err(e) is only logged, Ok(Some) is a hit
RECURSIVE SampleMismatches(_)
SampleMismatches(page) ==
    IF page = <<>> THEN <<>>
    ELSE LET item == Head(page)
             pushed == IF item.id # {} /\ item.lookup = "not_found"
                       THEN <<NotFoundMessage(CHOOSE i \in item.id : TRUE)>>
                       ELSE <<>>
         IN  pushed \o SampleMismatches(Tail(page))

\* variant: a DR count that cannot be read counts as 0
validate_table_data_DrCountDefaults(table_name, obs) ==
    IF ~obs.primary_count.ok THEN [ok |-> FALSE]
    ELSE IF ~obs.scan.ok THEN [ok |-> FALSE]
    ELSE [ok |-> TRUE,
          validation |->
              [table_name |-> table_name,
               primary_count |-> get_table_item_count(obs.primary_count),
               dr_count |-> IF obs.dr_count.ok
                            THEN get_table_item_count(obs.dr_count) ELSE 0,
               sample_mismatches |->
                   IF obs.scan.items = {} THEN <<>>
                   ELSE SampleMismatches(CHOOSE page \in obs.scan.items : TRUE)]]

\* variant: a failed sample scan is taken as an empty sample
validate_table_data_ScanTolerant(table_name, obs) ==
    IF ~obs.primary_count.ok THEN [ok |-> FALSE]
    ELSE IF ~obs.dr_count.ok THEN [ok |-> FALSE]
    ELSE [ok |-> TRUE,
          validation |->
              [table_name |-> table_name,
               primary_count |-> get_table_item_count(obs.primary_count),
               dr_count |-> get_table_item_count(obs.dr_count),
               sample_mismatches |->
                   IF ~obs.scan.ok \/ obs.scan.items = {} THEN <<>>
                   ELSE SampleMismatches(CHOOSE page \in obs.scan.items : TRUE)]]

\* validate_table_data: each await? returns the error of the call that failed
validate_table_data(table_name, obs) ==
    IF ~obs.primary_count.ok THEN [ok |-> FALSE]
    ELSE IF ~obs.dr_count.ok THEN [ok |-> FALSE]
    ELSE IF ~obs.scan.ok THEN [ok |-> FALSE]
    ELSE [ok |-> TRUE,
          validation |->
              [table_name |-> table_name,
               primary_count |-> get_table_item_count(obs.primary_count),
               dr_count |-> get_table_item_count(obs.dr_count),
               sample_mismatches |->
                   IF obs.scan.items = {} THEN <<>>
                   ELSE SampleMismatches(CHOOSE page \in obs.scan.items : TRUE)]]

\* variant: the missing items are put into the DR table
sync_missing_items_Copies(v) ==
    [synced_count |-> IF v.primary_count > v.dr_count
                      THEN v.primary_count - v.dr_count ELSE 0,
     writes |-> IF v.primary_count > v.dr_count
                THEN <<[by |-> "sync_missing_items", op |-> "put_item", region |-> "dr"]>>
                ELSE <<>>]

\* sync_missing_items: counts what it would copy to DR, and sends nothing
sync_missing_items(v) ==
    [synced_count |-> IF v.primary_count > v.dr_count
                      THEN v.primary_count - v.dr_count ELSE 0,
     writes |-> <<>>]

\* check_replication_lag: the put_item and the delete_item of the sentinel,
\* both sent to the primary table
SentinelWrite(op) == [by |-> "check_replication_lag", op |-> op, region |-> "primary"]

\* publish_single_metric: one call of put_metric_data and what became of it
PublishAttempt(name, outcome) == [name |-> name, outcome |-> outcome]

\* run_validation: the ValidationResults built once validate_backups returned
Results ==
    [tables_validated |-> Len(vvalidations),
     records_checked |-> vtotals.records,
     mismatches_found |-> vtotals.mismatches,
     replication_lag_seconds |-> vlag,
     backup_status |-> vbackup,
     consistency_score |-> ConsistencyScore(vbuild, vtotals.records, vtotals.mismatches)]

\* function_handler / run_validation begin: tables_to_validate and the counters
VStart(build, r) ==
    /\ vpc = "idle"
    /\ vpc' = "tables"
    /\ vbuild' = build
    /\ vreq' = r
    /\ vtables' = TablesToValidate(r.table_name)
    /\ vtotals' = [records |-> 0, mismatches |-> 0, synced |-> <<>>]
    /\ vvalidations' = <<>>
    /\ vlag' = {}
    /\ vlagcall' = NoLagCall
    /\ vbackup' = NoBackupStatus
    /\ vmetrics' = <<>>
    /\ vreport' = [kind |-> "none"]
    /\ vhist' = NoHistory
    /\ UNCHANGED <<fvars, pvars, hvars, lvars, bvars>>

\* one turn of the loop over tables_to_validate: validate_table_data returned
VTable(obs) ==
    /\ vpc = "tables"
    /\ LET t == Head(vtables)
           o == validate_table_data(t, obs)
           v == o.validation
       IN  IF o.ok
           THEN /\ vtotals' =
                     [records |-> vtotals.records + v.primary_count,
                      mismatches |-> vtotals.mismatches + TableMismatches(v),
                      synced |-> IF vreq.action = "sync" /\ TableMismatches(v) > 0
                                 THEN Append(vtotals.synced, t) ELSE vtotals.synced]
                /\ vvalidations' = Append(vvalidations, v)
           ELSE UNCHANGED <<vtotals, vvalidations>>
    /\ vhist' = [vhist EXCEPT
                     !.sampled = Append(@, validate_table_data(Head(vtables), obs)),
                     !.observed = Append(@, obs),
                     !.writes =
                         LET o == validate_table_data(Head(vtables), obs)
                         IN  IF o.ok /\ vreq.action = "sync"
                                /\ TableMismatches(o.validation) > 0
                             THEN @ \o sync_missing_items(o.validation).writes
                             ELSE @]
    /\ vtables' = Tail(vtables)
    /\ vpc' = IF Tail(vtables) = <<>> THEN "lag" ELSE "tables"
    /\ UNCHANGED <<vbuild, vreq, vlag, vlagcall, vbackup, vmetrics, vreport>>
    /\ UNCHANGED <<fvars, pvars, hvars, lvars, bvars>>

\* check_replication_lag is called and the put_item of the sentinel
\* completes: .await? returns its error, which unwrap_or(None) of
\* run_validation turns into None
VLagPut(outcome) ==
    /\ vpc = "lag"
    /\ vhist' = [vhist EXCEPT !.lag_calls = @ + 1, !.lag_failed = (outcome # "ok"),
                              !.writes = Append(@, SentinelWrite("put_item"))]
    /\ vpc' = IF outcome = "ok" THEN "lag_wait" ELSE "backups"
    /\ vlag' = {}
    /\ UNCHANGED <<vbuild, vreq, vtables, vtotals, vvalidations, vlagcall, vbackup,
                   vmetrics, vreport>>
    /\ UNCHANGED <<fvars, pvars, hvars, lvars, bvars>>

\* sleep(2 s) is over: start_time = Utc::now(), lag = None, the loop begins
VLagWait ==
    /\ vpc = "lag_wait"
    /\ vlagcall' = NoLagCall
    /\ vpc' = IF KeepPolling(0) THEN "lag_poll" ELSE "lag_delete"
    /\ UNCHANGED <<vbuild, vreq, vtables, vtotals, vvalidations, vlag, vbackup,
                   vmetrics, vreport, vhist>>
    /\ UNCHANGED <<fvars, pvars, hvars, lvars, bvars>>

\* one get_item of the loop completes; when it finds the sentinel, the time
\* since start_time is at least that of the sleeps made since
VLagPoll(outcome, elapsed) ==
    /\ vpc = "lag_poll"
    /\ elapsed >= vlagcall.attempts * PollInterval
    /\ IF outcome = "found"
       THEN /\ vlagcall' = [attempts |-> 0, lag |-> {elapsed}]
            /\ vpc' = "lag_delete"
       ELSE /\ vlagcall' = [vlagcall EXCEPT !.attempts = @ + 1]
            /\ vpc' = "lag_sleep"
    /\ UNCHANGED <<vbuild, vreq, vtables, vtotals, vvalidations, vlag, vbackup,
                   vmetrics, vreport, vhist>>
    /\ UNCHANGED <<fvars, pvars, hvars, lvars, bvars>>

\* sleep(1 s) at the end of a turn that saw nothing
VLagSleep ==
    /\ vpc = "lag_sleep"
    /\ IF KeepPolling(vlagcall.attempts)
       THEN /\ vpc' = "lag_poll"
            /\ UNCHANGED vlagcall
       ELSE /\ vpc' = "lag_delete"
            /\ vlagcall' = [vlagcall EXCEPT !.attempts = 0]
    /\ UNCHANGED <<vbuild, vreq, vtables, vtotals, vvalidations, vlag, vbackup,
                   vmetrics, vreport, vhist>>
    /\ UNCHANGED <<fvars, pvars, hvars, lvars, bvars>>

\* delete_item of the sentinel completes, check_replication_lag returns
\* Ok(lag): self.check_replication_lag().await.unwrap_or(None)
VLagDelete(outcome) ==
    /\ vpc = "lag_delete"
    /\ LET r == LagResult(vlagcall.lag, outcome)
       IN  /\ vlag' = IF r.ok THEN r.lag ELSE {}
           /\ vhist' = [vhist EXCEPT !.lag_failed = ~r.ok,
                                     !.writes = Append(@, SentinelWrite("delete_item"))]
    /\ vlagcall' = NoLagCall
    /\ vpc' = "backups"
    /\ UNCHANGED <<vbuild, vreq, vtables, vtotals, vvalidations, vbackup, vmetrics, vreport>>
    /\ UNCHANGED <<fvars, pvars, hvars, lvars, bvars>>

\* self.validate_backups().await.unwrap_or_else(..), then the score
VBackups(o) ==
    /\ vpc = "backups"
    /\ vbackup' = IF o.ok THEN o.status ELSE NoBackupStatus
    /\ IF ConsistencyScore(vbuild, vtotals.records, vtotals.mismatches).panic
       THEN /\ vpc' = "done"
            /\ vreport' = [kind |-> "panic"]
       ELSE /\ vpc' = "publish"
            /\ UNCHANGED vreport
    /\ vhist' = [vhist EXCEPT !.backup_failed = ~o.ok]
    /\ UNCHANGED <<vbuild, vreq, vtables, vtotals, vvalidations, vlag, vlagcall, vmetrics>>
    /\ UNCHANGED <<fvars, pvars, hvars, lvars, bvars>>

\* publish_validation_metrics: put_metric_data for ValidationConsistencyScore
\* completes; its error is only logged
VPublishScore(outcome) ==
    /\ vpc = "publish"
    /\ vmetrics' = vmetrics \o PublishedMetric("ValidationConsistencyScore",
                                                Results.consistency_score, outcome)
    /\ vhist' = [vhist EXCEPT !.published =
                     Append(@, PublishAttempt("ValidationConsistencyScore", outcome))]
    /\ vpc' = "publish_mismatches"
    /\ UNCHANGED <<vbuild, vreq, vtables, vtotals, vvalidations, vlag, vlagcall, vbackup,
                   vreport>>
    /\ UNCHANGED <<fvars, pvars, hvars, lvars, bvars>>

\* put_metric_data for ValidationMismatches completes, its error only logged;
\* then generate_recommendations, the status and the response
VPublishMismatches(outcome) ==
    /\ vpc = "publish_mismatches"
    /\ vmetrics' = vmetrics \o PublishedMetric("ValidationMismatches",
                                                Results.mismatches_found, outcome)
    /\ vhist' = [vhist EXCEPT !.published =
                     Append(@, PublishAttempt("ValidationMismatches", outcome))]
    /\ vreport' = [kind |-> "response",
                   status |-> ValidationStatus(Results.consistency_score),
                   validation_mode |-> vreq.validation_mode,
                   results |-> Results,
                   recommendations |-> generate_recommendations(Results)]
    /\ vpc' = "done"
    /\ UNCHANGED <<vbuild, vreq, vtables, vtotals, vvalidations, vlag, vlagcall, vbackup>>
    /\ UNCHANGED <<fvars, pvars, hvars, lvars, bvars>>

\* the run's outcome has been delivered
VReturn ==
    /\ vpc = "done"
    /\ vpc' = "idle"
    /\ vbuild' = "release"
    /\ vreq' = NoValidationRequest
    /\ vtables' = <<>>
    /\ vtotals' = [records |-> 0, mismatches |-> 0, synced |-> <<>>]
    /\ vvalidations' = <<>>
    /\ vlag' = {}
    /\ vlagcall' = NoLagCall
    /\ vbackup' = NoBackupStatus
    /\ vmetrics' = <<>>
    /\ vreport' = [kind |-> "none"]
    /\ vhist' = NoHistory
    /\ UNCHANGED <<fvars, pvars, hvars, lvars, bvars>>

ValidatorIdle ==
    /\ vpc = "idle"
    /\ vbuild = "release"
    /\ vreq = NoValidationRequest
    /\ vtables = <<>>
    /\ vtotals = [records |-> 0, mismatches |-> 0, synced |-> <<>>]
    /\ vvalidations = <<>>
    /\ vlag = {}
    /\ vlagcall = NoLagCall
    /\ vbackup = NoBackupStatus
    /\ vmetrics = <<>>
    /\ vreport = [kind |-> "none"]
    /\ vhist = NoHistory

(***************************************************************************)
(* HealthCheckService::run_health_check, and the region each probe reaches *)
(***************************************************************************)
Regions == {SUsEast1, SUsWest2}
Worlds == [Regions -> BOOLEAN]
HealthRequests == [region : {{}} \cup {{r} : r \in Regions}]
\* Utc::now().timestamp() when the sentinel is read
HealthClock == 100000
\* get_item of the sentinel: an error, or the last_updated it carries (none
\* when the item, the attribute or a parsable number is missing)
SentinelReads ==
    [ok : {FALSE}] \cup
    [ok : {TRUE},
     last_updated : {{}, {HealthClock}, {HealthClock - 5}, {HealthClock + 5}, {0}}]
NoHealthRequest == [region |-> {}]
NoServiceStatus == [dynamodb |-> FALSE, s3 |-> FALSE, replication_lag |-> {}]
NoHealthCalls == [dynamodb |-> "none", s3 |-> "none", lag |-> "none", publish |-> "none"]

\* HealthCheckService::new: region.unwrap_or_else(|| env AWS_REGION)
HealthCheckRegion(requested, env) ==
    IF requested = {} THEN env ELSE CHOOSE r \in requested : TRUE

\* HealthCheckService::new: the clients are built from the default
\* configuration, whose region is the function's AWS_REGION
HealthCheckClientRegion(requested, env) == env

\* FailoverService::check_health: the current client for the current region,
\* otherwise a client configured for the region asked about
FailoverProbeRegion(current_region, region) ==
    IF region = current_region THEN current_region ELSE region

\* list_tables().limit(1).send() against the DynamoDB endpoint of a region
ListTables(world, region) == IF world[region] THEN "ok" ELSE "error"

\* check_dynamodb_health / check_s3_health: Ok(result.is_ok())
check_dynamodb_health(list_outcome) == [ok |-> TRUE, value |-> (list_outcome = "ok")]
check_s3_health(list_outcome) == [ok |-> TRUE, value |-> (list_outcome = "ok")]

\* HealthCheckService::check_replication_lag: Ok(Some(current_time - timestamp))
\* when the sentinel was read with a last_updated, Ok(None) otherwise
health_check_replication_lag(read) ==
    [ok |-> TRUE,
     value |-> IF read.ok THEN {HealthClock - t : t \in read.last_updated} ELSE {}]

\* publish_metrics: the data of the single put_metric_data call
HealthMetrics(status) ==
    <<[name |-> "DynamoDBHealth", value |-> IF status.dynamodb THEN 1 ELSE 0],
      [name |-> "S3Health", value |-> IF status.s3 THEN 1 ELSE 0]>>
    \o (IF status.replication_lag = {} THEN <<>>
        ELSE <<[name |-> "ReplicationLag",
                value |-> CHOOSE lag \in status.replication_lag : TRUE]>>)

\* variant: one healthy service is enough
HealthStatus_Either(dynamodb_health, s3_health) ==
    IF dynamodb_health \/ s3_health THEN "healthy" ELSE "unhealthy"

\* if dynamodb_health && s3_health { "healthy" } else { "unhealthy" }
HealthStatus(dynamodb_health, s3_health) ==
    IF dynamodb_health /\ s3_health THEN "healthy" ELSE "unhealthy"

\* function_handler: HealthCheckService::new(event.payload.region), run_health_check
HStart(env, world, r) ==
    /\ hpc = "idle"
    /\ hpc' = "dynamodb"
    /\ henv' = env
    /\ hworld' = world
    /\ hreq' = r
    /\ hsvc' = NoServiceStatus
    /\ hcalls' = NoHealthCalls
    /\ hmetrics' = <<>>
    /\ hresp' = NoResult
    /\ UNCHANGED <<fvars, vvars, pvars, lvars, bvars>>

\* self.check_dynamodb_health().await?
HDynamo ==
    /\ hpc = "dynamodb"
    /\ LET outcome == ListTables(hworld, HealthCheckClientRegion(hreq.region, henv))
           health == check_dynamodb_health(outcome)
       IN  /\ hcalls' = [hcalls EXCEPT !.dynamodb = outcome]
           /\ IF health.ok
              THEN /\ hsvc' = [hsvc EXCEPT !.dynamodb = health.value]
                   /\ hpc' = "s3"
                   /\ UNCHANGED hresp
              ELSE /\ hresp' = Propagate("check_dynamodb_health")
                   /\ hpc' = "done"
                   /\ UNCHANGED hsvc
    /\ UNCHANGED <<henv, hworld, hreq, hmetrics>>
    /\ UNCHANGED <<fvars, vvars, pvars, lvars, bvars>>

\* self.check_s3_health().await?
HS3(outcome) ==
    /\ hpc = "s3"
    /\ LET health == check_s3_health(outcome)
       IN  /\ hcalls' = [hcalls EXCEPT !.s3 = outcome]
           /\ IF health.ok
              THEN /\ hsvc' = [hsvc EXCEPT !.s3 = health.value]
                   /\ hpc' = "lag"
                   /\ UNCHANGED hresp
              ELSE /\ hresp' = Propagate("check_s3_health")
                   /\ hpc' = "done"
                   /\ UNCHANGED hsvc
    /\ UNCHANGED <<henv, hworld, hreq, hmetrics>>
    /\ UNCHANGED <<fvars, vvars, pvars, lvars, bvars>>

\* self.check_replication_lag().await?
HLag(read) ==
    /\ hpc = "lag"
    /\ LET lag == health_check_replication_lag(read)
       IN  /\ hcalls' = [hcalls EXCEPT !.lag = IF read.ok THEN "ok" ELSE "error"]
           /\ IF lag.ok
              THEN /\ hsvc' = [hsvc EXCEPT !.replication_lag = lag.value]
                   /\ hpc' = "publish"
                   /\ UNCHANGED hresp
              ELSE /\ hresp' = Propagate("check_replication_lag")
                   /\ hpc' = "done"
                   /\ UNCHANGED hsvc
    /\ UNCHANGED <<henv, hworld, hreq, hmetrics>>
    /\ UNCHANGED <<fvars, vvars, pvars, lvars, bvars>>

\* publish_metrics (its error is only logged), then the Response
HPublish(outcome) ==
    /\ hpc = "publish"
    /\ hcalls' = [hcalls EXCEPT !.publish = outcome]
    /\ hmetrics' = IF outcome = "ok" THEN HealthMetrics(hsvc) ELSE <<>>
    /\ hresp' = [ok |-> TRUE,
                 status |-> HealthStatus(hsvc.dynamodb, hsvc.s3),
                 region |-> HealthCheckRegion(hreq.region, henv),
                 services |-> hsvc]
    /\ hpc' = "done"
    /\ UNCHANGED <<henv, hworld, hreq, hsvc>>
    /\ UNCHANGED <<fvars, vvars, pvars, lvars, bvars>>

\* the response has been delivered
HReturn ==
    /\ hpc = "done"
    /\ hpc' = "idle"
    /\ henv' = SUsEast1
    /\ hworld' = [r \in Regions |-> TRUE]
    /\ hreq' = NoHealthRequest
    /\ hsvc' = NoServiceStatus
    /\ hcalls' = NoHealthCalls
    /\ hmetrics' = <<>>
    /\ hresp' = NoResult
    /\ UNCHANGED <<fvars, vvars, pvars, lvars, bvars>>

HealthIdle ==
    /\ hpc = "idle"
    /\ henv = SUsEast1
    /\ hworld = [r \in Regions |-> TRUE]
    /\ hreq = NoHealthRequest
    /\ hsvc = NoServiceStatus
    /\ hcalls = NoHealthCalls
    /\ hmetrics = <<>>
    /\ hresp = NoResult

NextHealth ==
    \/ \E env \in Regions, world \in Worlds, r \in HealthRequests : HStart(env, world, r)
    \/ HDynamo
    \/ \E o \in CallOutcomes : HS3(o)
    \/ \E read \in SentinelReads : HLag(read)
    \/ \E o \in CallOutcomes : HPublish(o)
    \/ HReturn

(***************************************************************************)
(* DataValidatorService::check_replication_lag, await by await.  The clock *)
(* advances while the function sleeps and while a remote call is in flight.*)
(***************************************************************************)
\* check_replication_lag is called: test_id and timestamp are taken
LStart ==
    /\ lpc = "idle"
    /\ lpc' = "put"
    /\ UNCHANGED <<lnow, lstart, lattempts, llag, lresult, lhist>>
    /\ UNCHANGED <<fvars, vvars, pvars, hvars, bvars>>

\* put_item of the sentinel into the primary table completes: .await?
LPut(outcome, d) ==
    /\ lpc = "put"
    /\ lnow' = lnow + d
    /\ IF outcome = "ok"
       THEN /\ lhist' = [lhist EXCEPT !.put = outcome, !.written = {lnow + d}]
            /\ lpc' = "wait"
            /\ UNCHANGED lresult
       ELSE /\ lhist' = [lhist EXCEPT !.put = outcome]
            /\ lpc' = "done"
            /\ lresult' = [ok |-> FALSE]
    /\ UNCHANGED <<lstart, lattempts, llag>>
    /\ UNCHANGED <<fvars, vvars, pvars, hvars, bvars>>

\* sleep(2 s), then start_time = Utc::now() and lag = None
LWait ==
    /\ lpc = "wait"
    /\ lnow' = lnow + InitialWait
    /\ lstart' = {lnow + InitialWait}
    /\ lhist' = [lhist EXCEPT !.waited = @ + InitialWait]
    /\ lpc' = IF KeepPolling(lattempts) THEN "poll" ELSE "delete"
    /\ UNCHANGED <<lattempts, llag, lresult>>
    /\ UNCHANGED <<fvars, vvars, pvars, hvars, bvars>>

\* one get_item of the loop completes
LPoll(outcome, d) ==
    /\ lpc = "poll"
    /\ lnow' = lnow + d
    /\ lattempts' = lattempts + 1
    /\ IF outcome = "found"
       THEN /\ llag' = {ElapsedSince(CHOOSE t \in lstart : TRUE, lnow + d)}
            /\ lhist' = [lhist EXCEPT !.seen = {lnow + d}, !.found_at = {lattempts + 1}]
            /\ lpc' = "delete"
       ELSE /\ lpc' = "sleep"
            /\ UNCHANGED <<llag, lhist>>
    /\ UNCHANGED <<lstart, lresult>>
    /\ UNCHANGED <<fvars, vvars, pvars, hvars, bvars>>

\* sleep(1 s) at the end of a turn that saw nothing
LSleep ==
    /\ lpc = "sleep"
    /\ lnow' = lnow + PollInterval
    /\ lhist' = [lhist EXCEPT !.waited = @ + PollInterval]
    /\ lpc' = IF KeepPolling(lattempts) THEN "poll" ELSE "delete"
    /\ UNCHANGED <<lstart, lattempts, llag, lresult>>
    /\ UNCHANGED <<fvars, vvars, pvars, hvars, bvars>>

\* delete_item of the sentinel completes; Ok(lag)
LDelete(outcome, d) ==
    /\ lpc = "delete"
    /\ lnow' = lnow + d
    /\ lhist' = [lhist EXCEPT !.deletes = Append(@, outcome)]
    /\ lresult' = LagResult(llag, outcome)
    /\ lpc' = "done"
    /\ UNCHANGED <<lstart, lattempts, llag>>
    /\ UNCHANGED <<fvars, vvars, pvars, hvars, bvars>>

\* the caller has the result
LReturn ==
    /\ lpc = "done"
    /\ lpc' = "idle"
    /\ lnow' = 0
    /\ lstart' = {}
    /\ lattempts' = 0
    /\ llag' = {}
    /\ lresult' = NoResult
    /\ lhist' = NoLagHistory
    /\ UNCHANGED <<fvars, vvars, pvars, hvars, bvars>>

LagIdle ==
    /\ lpc = "idle"
    /\ lnow = 0
    /\ lstart = {}
    /\ lattempts = 0
    /\ llag = {}
    /\ lresult = NoResult
    /\ lhist = NoLagHistory

NextLag ==
    \/ LStart
    \/ \E o \in CallOutcomes, d \in Latencies : LPut(o, d)
    \/ LWait
    \/ \E o \in PollOutcomes, d \in Latencies : LPoll(o, d)
    \/ LSleep
    \/ \E o \in CallOutcomes, d \in Latencies : LDelete(o, d)
    \/ LReturn

(***************************************************************************)
(* BackupManagerService::run_backup, the status record of the failover     *)
(* controller, and validate_backups, over the tables of the primary region *)
(***************************************************************************)
MaxEpoch == 2
MaxPages == 2
MaxPageItems == 1

\* a table and a bucket other than the default ones, as METADATA_TABLE and
\* BACKUP_BUCKET can name them
OtherTable == "other-table"
DefaultBucket == "dr-demo-backup-bucket-primary"
OtherBucket == "other-bucket"
MetaTables == {MetadataTable, BinaryStatusTable, OtherTable}

\* the environments BackupManagerService::new() is explored with: neither
\* variable set, as deployed, or both, as the tests set them
BackupEnvironments ==
    {[METADATA_TABLE |-> {}, BACKUP_BUCKET |-> {}],
     [METADATA_TABLE |-> {OtherTable}, BACKUP_BUCKET |-> {OtherBucket}]}
\* (the environment is that of the function's configuration: every invocation
\* of a behaviour finds the same one)

\* std::env::var(..).unwrap_or_else(|_| default)
VarOrElse(var, default) == IF var = {} THEN default ELSE CHOOSE x \in var : TRUE

\* BackupManagerService::new(): the bucket and the metadata table it keeps
BackupManagerService(env) ==
    [backup_bucket |-> VarOrElse(env.BACKUP_BUCKET, DefaultBucket),
     metadata_table |-> VarOrElse(env.METADATA_TABLE, MetadataTable)]
\* the service an invocation of the backup manager works with
bsvc == BackupManagerService(benv)
\* neither variable set: the function as deployed
DeployedBackupEnvironment == [METADATA_TABLE |-> {}, BACKUP_BUCKET |-> {}]
BackupTypes == {"full"}
BackupRequests == [table_name : {AppTable}, backup_type : BackupTypes]
ScanPageOutcomes == {"more", "last", "error", "undecodable"}

\* AttributeValue::N and AttributeValue::S
AttrN(v) == [type |-> "N", value |-> v]
AttrS(v) == [type |-> "S", value |-> v]

\* format!("{}-{}-{}", table_name, backup_type, timestamp)
generate_backup_id(table_name, backup_type, timestamp) ==
    <<table_name, "-", backup_type, "-", timestamp>>

\* format!("backups/{}/{}.json", table_name, backup_id)
BlobKey(table_name, backup_id) == <<"backups/", table_name, "/", backup_id, ".json">>

\* put_object().bucket(..).key(..): the object S3 holds
Blob(bucket, table_name, backup_id) ==
    [bucket |-> bucket, key |-> BlobKey(table_name, backup_id)]

\* to_item(BackupMetadata {..}): every String field becomes an S attribute
BackupMetadataItem(backup_id, table_name, t, items_count) ==
    [key_name |-> "backup_id", key |-> backup_id, table_name |-> table_name,
     timestamp |-> AttrS(t), items_count |-> items_count, status |-> "completed"]

\* the item of update_failover_status, of the library or of the binary, as
\* DynamoDB holds it: the key is a sequence of parts, as a backup_id is, the
\* timestamp an N
StatusItem(build, to_region, action, t) ==
    [StatusRecord(build, to_region, action, t) EXCEPT !.key = <<@>>,
                                                      !.timestamp = AttrN(t)]

SetMax(S) == CHOOSE x \in S : \A y \in S : y <= x
SetMin(S) == CHOOSE x \in S : \A y \in S : x <= y

\* the timestamps validate_backups folds: as_n() of the attribute succeeded
NumericTimestamps(items) ==
    {x.timestamp.value : x \in {y \in items : y.timestamp.type = "N"}}

\* validate_backups, given the outcome of its scan of dr-backup-metadata;
\* ages are kept in seconds
validate_backups(scan, t) ==
    IF ~scan.ok THEN [ok |-> FALSE]
    ELSE LET items == scan.items
             stamps == NumericTimestamps(items)
             last_backup_timestamp == SetMax(stamps \cup {0})
         IN  [ok |-> TRUE,
              status |->
                [last_backup_age_secs |->
                     IF last_backup_timestamp > 0 THEN {t - last_backup_timestamp} ELSE {},
                 backup_count |-> Cardinality(items),
                 oldest_backup_age_secs |->
                     IF stamps # {} THEN {t - SetMin(stamps)} ELSE {}]]

\* run_validation: validate_backups().await.unwrap_or_else(default)
BackupStatusOrDefault(r) == IF r.ok THEN r.status ELSE NoBackupStatus

NoBackupRequest == [table_name |-> "", backup_type |-> "full"]
NoBackupHistory ==
    [pages |-> 0, before |-> {}, uploaded |-> FALSE, recorded |-> FALSE]
NoBackupResponse == [ok |-> FALSE, error |-> "none"]

\* variant: a failed upload is only logged
AfterUpload_Tolerant(outcome) == "recording"

\* create_backup after put_object().send().await? : "recording" or "error"
AfterUpload(outcome) == IF outcome = "ok" THEN "recording" ELSE "error"

\* function_handler of the backup manager, from BackupManagerService::new()
\* up to the first scan
BStart(r) ==
    /\ bpc = "idle"
    /\ bpc' = "scanning"
    /\ breq' = r
    /\ bid' = {generate_backup_id(r.table_name, r.backup_type, mnow)}
    /\ bcount' = 0
    /\ bresp' = NoBackupResponse
    /\ bhist' = [NoBackupHistory EXCEPT !.before = {mstore}]
    /\ bsent' = {}
    /\ UNCHANGED <<mstore, mbucket, mnow, wstatus, mput, benv>>
    /\ UNCHANGED <<fvars, vvars, pvars, hvars, lvars>>

\* one scan of create_backup returns: a page with n items, more to come or
\* the last one, or an error, or items from_items cannot decode
BScan(outcome, n) ==
    /\ bpc = "scanning"
    /\ outcome = "more" => bhist.pages + 1 < MaxPages
    /\ bhist' = [bhist EXCEPT !.pages = @ + 1]
    /\ IF outcome = "error"
       THEN /\ bpc' = "done"
            /\ bresp' = Propagate("scan")
            /\ UNCHANGED bcount
       ELSE IF outcome = "undecodable"
       THEN /\ bpc' = "done"
            /\ bresp' = Propagate("from_items")
            /\ UNCHANGED bcount
       ELSE /\ bcount' = bcount + n
            /\ bpc' = IF outcome = "more" THEN "scanning" ELSE "uploading"
            /\ UNCHANGED bresp
    /\ UNCHANGED <<mstore, mbucket, mnow, breq, bid, wstatus, bsent, mput, benv>>
    /\ UNCHANGED <<fvars, vvars, pvars, hvars, lvars>>

\* put_object().send() of create_backup completes; on success run_backup goes
\* on to update_backup_metadata, which reads the clock for the item and hands
\* the item to put_item
BUpload(outcome) ==
    /\ bpc = "uploading"
    /\ LET backup_id == CHOOSE x \in bid : TRUE
       IN  IF AfterUpload(outcome) = "error"
           THEN /\ bpc' = "done"
                /\ bresp' = Propagate("put_object")
                /\ UNCHANGED <<mbucket, bhist, bsent>>
           ELSE /\ bpc' = "recording"
                /\ mbucket' = IF outcome = "ok"
                               THEN mbucket \cup {Blob(bsvc.backup_bucket,
                                                      breq.table_name, backup_id)}
                               ELSE mbucket
                /\ bhist' = [bhist EXCEPT !.uploaded = (outcome = "ok")]
                /\ bsent' = {BackupMetadataItem(backup_id, breq.table_name,
                                                 mnow, bcount)}
                /\ UNCHANGED bresp
    /\ UNCHANGED <<mstore, mnow, breq, bid, bcount, wstatus, mput, benv>>
    /\ UNCHANGED <<fvars, vvars, pvars, hvars, lvars>>

\* put_item().send() of update_backup_metadata completes, and run_backup
\* reads the clock again for its response
BRecord(outcome) ==
    /\ bpc = "recording"
    /\ bpc' = "done"
    /\ LET backup_id == CHOOSE x \in bid : TRUE
           item == CHOOSE x \in bsent : TRUE
       IN  IF outcome = "ok"
           THEN /\ mstore' = [mstore EXCEPT ![bsvc.metadata_table] = PutItem(@, item)]
                /\ bhist' = [bhist EXCEPT !.recorded = TRUE]
                /\ bresp' = [ok |-> TRUE, status |-> "success", backup_id |-> backup_id,
                             timestamp |-> Rfc3339(mnow), items_backed_up |-> bcount]
           ELSE /\ bresp' = Propagate("put_item")
                /\ UNCHANGED <<mstore, bhist>>
    /\ UNCHANGED <<mbucket, mnow, breq, bid, bcount, wstatus, bsent, mput, benv>>
    /\ UNCHANGED <<fvars, vvars, pvars, hvars, lvars>>

\* the result of run_backup has been delivered
BReturn ==
    /\ bpc = "done"
    /\ bpc' = "idle"
    /\ breq' = NoBackupRequest
    /\ bid' = {}
    /\ bcount' = 0
    /\ bresp' = NoBackupResponse
    /\ bhist' = NoBackupHistory
    /\ bsent' = {}
    /\ UNCHANGED <<mstore, mbucket, mnow, wstatus, mput, benv>>
    /\ UNCHANGED <<fvars, vvars, pvars, hvars, lvars>>

\* a failover or failback request reaches update_failover_status, of the
\* library or of the binary: the clock is read for the item and the item
\* handed to put_item
BFailoverSends(build, to_region, action) ==
    /\ mput = {}
    /\ mput' = {[table |-> StatusTable(build),
                 item |-> StatusItem(build, to_region, action, mnow)]}
    /\ UNCHANGED <<mstore, mbucket, mnow, bpc, breq, bid, bcount, bresp, bhist,
                   wstatus, bsent, benv>>
    /\ UNCHANGED <<fvars, vvars, pvars, hvars, lvars>>

\* put_item().send() of update_failover_status completes
BFailoverCompletes(outcome) ==
    /\ mput # {}
    /\ LET p == CHOOSE x \in mput : TRUE
       IN  mstore' = IF outcome = "ok"
                     THEN [mstore EXCEPT ![p.table] = PutItem(@, p.item)]
                     ELSE mstore
    /\ mput' = {}
    /\ UNCHANGED <<mbucket, mnow, bpc, breq, bid, bcount, bresp, bhist, wstatus, bsent,
                   benv>>
    /\ UNCHANGED <<fvars, vvars, pvars, hvars, lvars>>

\* a validation reaches validate_backups: its scan returns, and backup_status
\* of the report is fixed
BValidate(outcome) ==
    /\ LET scan == IF outcome = "ok" THEN [ok |-> TRUE, items |-> mstore[MetadataTable]]
                   ELSE [ok |-> FALSE]
       IN  wstatus' = [kind |-> "status", scanned |-> (outcome = "ok"), at |-> mnow,
                       seen |-> IF outcome = "ok" THEN mstore[MetadataTable] ELSE {},
                       status |-> BackupStatusOrDefault(validate_backups(scan, mnow))]
    /\ UNCHANGED <<mstore, mbucket, mnow, bpc, breq, bid, bcount, bresp, bhist,
                   bsent, mput, benv>>
    /\ UNCHANGED <<fvars, vvars, pvars, hvars, lvars>>

BTick ==
    /\ mnow < MaxEpoch
    /\ mnow' = mnow + 1
    /\ UNCHANGED <<mstore, mbucket, bpc, breq, bid, bcount, bresp, bhist, wstatus,
                   bsent, mput, benv>>
    /\ UNCHANGED <<fvars, vvars, pvars, hvars, lvars>>

BackupStart(environments) ==
    /\ benv \in environments
    /\ mstore = [t \in MetaTables |-> {}]
    /\ mbucket = {}
    /\ mnow = 1
    /\ bpc = "idle"
    /\ breq = NoBackupRequest
    /\ bid = {}
    /\ bcount = 0
    /\ bresp = NoBackupResponse
    /\ bhist = NoBackupHistory
    /\ wstatus = [kind |-> "none"]
    /\ bsent = {}
    /\ mput = {}

\* the backup manager before any request, with either environment, and the
\* deployed function standing by
BackupInit == BackupStart(BackupEnvironments)
BackupIdle == BackupStart({DeployedBackupEnvironment})

NextBackup ==
    \/ \E r \in BackupRequests : BStart(r)
    \/ \E o \in ScanPageOutcomes, n \in 1..MaxPageItems : BScan(o, n)
    \/ \E o \in CallOutcomes : BUpload(o)
    \/ \E o \in CallOutcomes : BRecord(o)
    \/ BReturn
    \/ \E o \in CallOutcomes : BValidate(o)
    \/ BTick

NextFailoverStatus ==
    \/ \E b \in FailoverBuilds, a \in {SFailover, SFailback} :
           BFailoverSends(b, SUsWest2, a)
    \/ \E o \in PutItemOutcomes : BFailoverCompletes(o)
    \/ \E o \in CallOutcomes : BValidate(o)
    \/ BTick

PureIdle ==
    /\ pcase = "none"
    /\ pin = <<>>
    /\ pout = {}

Init == FailoverInit /\ ValidatorIdle /\ PureIdle /\ HealthIdle /\ LagIdle /\ BackupIdle

\* the initial state of the specifications of the other functions
InitIdle == FailoverIdle /\ ValidatorIdle /\ PureIdle /\ HealthIdle /\ LagIdle /\ BackupIdle

\* one invocation at a time, every request
Next ==
    \/ \E i \in Sequential, r \in Requests , e \in Environments : Invoke(i, r, e)
    \/ \E i \in Sequential, o \in ListTablesOutcomes : ProbeReturns(i, o)
    \/ \E i \in Sequential, o \in PutItemOutcomes : PutReturns(i, o)
    \/ \E i \in Sequential : Return(i)
    \/ Tick

Spec == Init /\ [][Next]_vars

\* two invocations in flight at once, requests that can reach the write
NextRace ==
    \/ \E i \in Invocations, r \in RacingRequests , e \in Environments : Invoke(i, r, e)
    \/ \E i \in Invocations, o \in ListTablesOutcomes : ProbeReturns(i, o)
    \/ \E i \in Invocations, o \in PutItemOutcomes : PutReturns(i, o)
    \/ \E i \in Invocations : Return(i)
    \/ Tick

SpecRace == Init /\ [][NextRace]_vars

\* the data validator, one run at a time
NextValidation ==
    \/ \E b \in Builds, r \in ValidationRequests : VStart(b, r)
    \/ \E obs \in RunObservations : VTable(obs)
    \/ \E o \in CallOutcomes : VLagPut(o)
    \/ VLagWait
    \/ \E o \in PollOutcomes, e \in MeasuredLags : VLagPoll(o, e)
    \/ VLagSleep
    \/ \E o \in CallOutcomes : VLagDelete(o)
    \/ \E o \in BackupOutcomes : VBackups(o)
    \/ \E o \in PublishOutcomes : VPublishScore(o)
    \/ \E o \in PublishOutcomes : VPublishMismatches(o)
    \/ VReturn

SpecValidation == InitIdle /\ [][NextValidation]_vars

\* backups and validations over the metadata table and the bucket
InitBackup == FailoverIdle /\ ValidatorIdle /\ PureIdle /\ HealthIdle /\ LagIdle /\ BackupInit
SpecBackup == InitBackup /\ [][NextBackup]_vars

\* completed failovers and validations, no backup ever made
SpecFailoverStatus == InitIdle /\ [][NextFailoverStatus]_vars

\* the validator's lag measurement, one call at a time
SpecLag == InitIdle /\ [][NextLag]_vars

\* the health check, one invocation at a time
SpecHealth == InitIdle /\ [][NextHealth]_vars

(***************************************************************************)
(* The validator's functions applied on their own, to arguments drawn from *)
(* bounded sets: generate_recommendations, the consistency score for two   *)
(* mismatch totals over the same record total, and validate_table_data.    *)
(***************************************************************************)
MaxRecords == 3
MaxMismatches == 5

\* (total_records, total_mismatches) behind the scores handed to generate_recommendations
ScoreSamples == {<<0, 0>>, <<100, 0>>, <<100, 5>>, <<100, 6>>, <<100, 12>>, <<10, 90>>}
LagSamples == {{}, {0}, {60}, {61}, {120}}
LastBackupAges == {7200, 86400, 86401, 129600}
OldestBackupAges == {1728000, 2592000, 2592001, 3888000}
BackupSamples ==
    {NoBackupStatus}
    \cup {[last_backup_age_secs |-> {a}, backup_count |-> 1, oldest_backup_age_secs |-> {a}] :
              a \in LastBackupAges}
    \cup {[last_backup_age_secs |-> {a}, backup_count |-> 2, oldest_backup_age_secs |-> {b}] :
              a \in LastBackupAges, b \in OldestBackupAges}
RecommendationInputs ==
    {[tables_validated |-> 1,
      records_checked |-> c[1],
      mismatches_found |-> c[2],
      replication_lag_seconds |-> lag,
      backup_status |-> b,
      consistency_score |-> ConsistencyScore("release", c[1], c[2])] :
         c \in ScoreSamples, lag \in LagSamples, b \in BackupSamples}

ScoreInputs ==
    {i \in [build : Builds, total_records : 1..MaxRecords,
            fewer : 0..MaxMismatches, more : 0..MaxMismatches] : i.fewer <= i.more}

TableInputs == [table_name : {AppTable}, observation : TableObservations]

\* the record store as an execution finds it: empty, or holding the status
\* record of an earlier failback
ExecuteStores == {{}, {FailoverItem(SUsWest2, SFailback, 0)}}

ExecuteInputs ==
    [target_region : RegionStrings, force : BOOLEAN,
     list_outcome : ListTablesOutcomes, put_outcome : PutItemOutcomes,
     t : 0..MaxClock, d : Latencies, items : ExecuteStores]

\* execute_failover from entry to return: the result, the remote calls made
\* and the items of the status table afterwards; t is the clock when the
\* health check has returned, d the time the put_item takes
execute_failover(target_region, force, list_outcome, put_outcome, t, d, items) ==
    LET is_healthy == check_health(list_outcome)
    IN  IF ~force /\ ~is_healthy.ok
        THEN [result |-> Propagate("check_health"),
              calls |-> <<"list_tables">>, items |-> items]
        ELSE IF ~force /\ ~is_healthy.value
        THEN [result |-> [ok |-> TRUE, status |-> "failed",
                          message |-> STargetRegion \o target_region \o SIsNotHealthy,
                          action |-> SFailover, timestamp |-> Rfc3339(t)],
              calls |-> <<"list_tables">>, items |-> items]
        ELSE IF put_outcome # "ok"
        THEN [result |-> Propagate("put_item"),
              calls |-> (IF ~force THEN <<"list_tables">> ELSE <<>>) \o <<"put_item">>,
              items |-> items]
        ELSE [result |-> [ok |-> TRUE, status |-> "success",
                          message |-> SFailoverTo \o target_region \o SCompleted,
                          action |-> SFailover, timestamp |-> Rfc3339(t + d)],
              calls |-> (IF ~force THEN <<"list_tables">> ELSE <<>>) \o <<"put_item">>,
              items |-> PutItem(items, FailoverItem(target_region, SFailover, t))]

\* variant: failback does not look at the health of the target region
execute_failback_NoProbe(target_region, force, list_outcome, put_outcome, t, d, items) ==
    IF put_outcome # "ok"
    THEN [result |-> Propagate("put_item"), calls |-> <<"put_item">>, items |-> items]
    ELSE [result |-> [ok |-> TRUE, status |-> "success",
                      message |-> SFailbackTo \o target_region \o SCompleted,
                      action |-> SFailback, timestamp |-> Rfc3339(t + d)],
          calls |-> <<"put_item">>,
          items |-> PutItem(items, FailoverItem(target_region, SFailback, t))]

\* execute_failback from entry to return
execute_failback(target_region, force, list_outcome, put_outcome, t, d, items) ==
    LET is_healthy == check_health(list_outcome)
    IN  IF ~force /\ ~is_healthy.ok
        THEN [result |-> Propagate("check_health"),
              calls |-> <<"list_tables">>, items |-> items]
        ELSE IF ~force /\ ~is_healthy.value
        THEN [result |-> [ok |-> TRUE, status |-> "failed",
                          message |-> STargetRegion \o target_region \o SIsNotHealthy,
                          action |-> SFailback, timestamp |-> Rfc3339(t)],
              calls |-> <<"list_tables">>, items |-> items]
        ELSE IF put_outcome # "ok"
        THEN [result |-> Propagate("put_item"),
              calls |-> (IF ~force THEN <<"list_tables">> ELSE <<>>) \o <<"put_item">>,
              items |-> items]
        ELSE [result |-> [ok |-> TRUE, status |-> "success",
                          message |-> SFailbackTo \o target_region \o SCompleted,
                          action |-> SFailback, timestamp |-> Rfc3339(t + d)],
              calls |-> (IF ~force THEN <<"list_tables">> ELSE <<>>) \o <<"put_item">>,
              items |-> PutItem(items, FailoverItem(target_region, SFailback, t))]

HandleInputs ==
    [request : Requests, env : Environments, list_outcome : ListTablesOutcomes,
     put_outcome : PutItemOutcomes, t : 0..MaxClock, d : Latencies]

\* update_failover_status of the library or of the binary: the put_item sent
UpdateFailoverStatus(build, to_region, action, t) ==
    [table |-> StatusTable(build), item |-> StatusItem(build, to_region, action, t)]

\* FailoverService::new() and handle_request, of the library or of the binary,
\* from the event to the result, with the put_item sent (at most one); t is
\* the clock when the health check has returned, d the time the put_item takes
FunctionHandler(build, r, env, list_outcome, put_outcome, t, d) ==
    LET force == UnwrapOrFalse(r.force)
        arm == HandleRequestArm(r.action)
        next == IF ExecuteGate(force) = "probe"
                THEN AfterProbe(check_health(list_outcome)) ELSE "write"
    IN  IF env = {}
        THEN [result |-> Propagate("AWS_REGION"), puts |-> {}]
        ELSE IF arm = "invalid"
        THEN [result |-> InvalidActionResponse(r.action, t), puts |-> {}]
        ELSE IF next = "error"
        THEN [result |-> Propagate("check_health"), puts |-> {}]
        ELSE IF next = "reject"
        THEN [result |-> NotHealthyResponse(arm, r.target_region, t), puts |-> {}]
        ELSE [result |-> AfterPut(arm, r.target_region, put_outcome, t + d),
              puts |-> {UpdateFailoverStatus(build, r.target_region, ExecuteTag(arm), t)}]

PureInit ==
    /\ pout = {}
    /\ \/ pcase = "generate_recommendations" /\ pin \in RecommendationInputs
       \/ pcase = "consistency_score" /\ pin \in ScoreInputs
       \/ pcase = "validate_table_data" /\ pin \in TableInputs
       \/ pcase = "execute" /\ pin \in ExecuteInputs
       \/ pcase = "function_handler" /\ pin \in HandleInputs

ApplyRecommendations ==
    /\ pcase = "generate_recommendations"
    /\ pout = {}
    /\ pout' = {generate_recommendations(pin)}
    /\ UNCHANGED <<pcase, pin, fvars, vvars, hvars, lvars, bvars>>

ApplyScore ==
    /\ pcase = "consistency_score"
    /\ pout = {}
    /\ pout' = {[fewer |-> ConsistencyScore(pin.build, pin.total_records, pin.fewer),
                 more |-> ConsistencyScore(pin.build, pin.total_records, pin.more)]}
    /\ UNCHANGED <<pcase, pin, fvars, vvars, hvars, lvars, bvars>>

ApplyValidateTable ==
    /\ pcase = "validate_table_data"
    /\ pout = {}
    /\ pout' = {validate_table_data(pin.table_name, pin.observation)}
    /\ UNCHANGED <<pcase, pin, fvars, vvars, hvars, lvars, bvars>>

\* the same event handed to execute_failover and to execute_failback
ApplyExecute ==
    /\ pcase = "execute"
    /\ pout = {}
    /\ pout' = {[failover |-> execute_failover(pin.target_region, pin.force,
                                  pin.list_outcome, pin.put_outcome, pin.t, pin.d, pin.items),
                 failback |-> execute_failback(pin.target_region, pin.force,
                                  pin.list_outcome, pin.put_outcome, pin.t, pin.d, pin.items)]}
    /\ UNCHANGED <<pcase, pin, fvars, vvars, hvars, lvars, bvars>>

\* the same event handed to the library's service and to the binary's
ApplyFunctionHandler ==
    /\ pcase = "function_handler"
    /\ pout = {}
    /\ pout' = {[library |-> FunctionHandler("library", pin.request, pin.env,
                                             pin.list_outcome, pin.put_outcome,
                                             pin.t, pin.d),
                 binary |-> FunctionHandler("binary", pin.request, pin.env,
                                            pin.list_outcome, pin.put_outcome,
                                            pin.t, pin.d)]}
    /\ UNCHANGED <<pcase, pin, fvars, vvars, hvars, lvars, bvars>>

InitPure ==
    FailoverInit /\ ValidatorIdle /\ PureInit /\ HealthIdle /\ LagIdle /\ BackupIdle

NextPure ==
    \/ ApplyRecommendations
    \/ ApplyScore
    \/ ApplyValidateTable
    \/ ApplyExecute
    \/ ApplyFunctionHandler

SpecPure == InitPure /\ [][NextPure]_vars

(***************************************************************************)
(* Properties of the failover controller                                   *)
(***************************************************************************)
Done(i) == pc[i] = "done"
\* FailoverService::new() succeeded and handle_request was called
Handled(i) == fenv[i] # {}
ValidAction(i) == req[i].action \in {SFailover, SFailback}
NotForced(i) == req[i].force \in {{}, {FALSE}}
Forced(i) == req[i].force = {TRUE}
Unhealthy(i) == probe[i] \in {"error", "timeout"}
Failed(i) == result[i].ok /\ result[i].status = "failed"
Succeeded(i) == result[i].ok /\ result[i].status = "success"
\* invocation i has made no put_item call and the failover table is as it was
NoWrite(i) ==
    /\ put[i] = "none"
    /\ sent[i] = {}
    /\ store[FailoverTable] = before[i]

\* C1: a failover/failback request with force false or omitted whose probe of
\* target_region reports unhealthy is answered "failed" with a message that
\* contains "not healthy", and the failover record is left as it was.
C1_UnhealthyRejected ==
    \A i \in Invocations :
        (Done(i) /\ ValidAction(i) /\ NotForced(i) /\ Unhealthy(i)) =>
            /\ Failed(i)
            /\ Contains(result[i].message, SNotHealthy)
            /\ NoWrite(i)

C1_Witness ==
    /\ Done(1) /\ req[1].action = SFailover /\ req[1].force = {}
    /\ req[1].target_region = SUsWest2 /\ probe[1] = "timeout"
    /\ Failed(1) /\ store[FailoverTable] # {}

\* C2: in handle_request with a valid action and force=true the health probe
\* is never invoked, the put_item call is made, and when the store accepts it
\* the record is in the table and the response is "success".
C2_ForceSkipsProbe ==
    \A i \in Invocations :
        (pc[i] # "idle" /\ Handled(i) /\ ValidAction(i) /\ Forced(i)) =>
            /\ pc[i] \in {"writing", "done"}
            /\ probe[i] = "none"
            /\ sent[i] # {}
            /\ Done(i) => put[i] # "none"
            /\ (Done(i) /\ put[i] = "ok") =>
                   (Succeeded(i) /\ store[FailoverTable] = sent[i])

C2_Witness ==
    /\ Done(1) /\ req[1].action = SFailback /\ Forced(1)
    /\ req[1].target_region = SUsWest2
    /\ put[1] = "ok" /\ Succeeded(1) /\ store[FailoverTable] = sent[1]

\* C3: handle_request with an action string other than exactly "failover" or
\* "failback" answers at once with "failed" and a message naming the action;
\* no probe is made and nothing is written, whatever target_region and force
\* are.
C3_InvalidActionRejected ==
    \A i \in Invocations :
        (pc[i] # "idle" /\ Handled(i) /\ ~ValidAction(i)) =>
            /\ Done(i)
            /\ Failed(i)
            /\ Contains(result[i].message, req[i].action)
            /\ result[i].message = SInvalidAction \o req[i].action
            /\ probe[i] = "none"
            /\ NoWrite(i)

C3_Witness ==
    /\ Done(1) /\ req[1].action = SFailoverUpper /\ Forced(1)
    /\ req[1].target_region = SUsWest2 /\ Failed(1)
    /\ store[FailoverTable] # {}

\* C4: a valid request that reaches handle_request and passes the gate (probed
\* healthy, or forced) hands put_item the record {failover_status, action of
\* the request, source_region = current_region, target_region of the request,
\* completed}; once written, it is the record in the table and the response is
\* "success" with the same action.
C4_RecordWritten ==
    \A i \in Invocations :
        /\ (Done(i) /\ Handled(i) /\ ValidAction(i) /\ (Forced(i) \/ probe[i] = "ok")) =>
               (put[i] # "none" /\ sent[i] # {})
        /\ \A x \in sent[i] :
               /\ x.key = "failover_status"
               /\ x.action = req[i].action
               /\ x.source_region = CurrentRegion
               /\ x.target_region = req[i].target_region
               /\ x.status = "completed"
        /\ (Done(i) /\ put[i] = "ok") =>
               /\ store[FailoverTable] = sent[i]
               /\ Succeeded(i)
               /\ result[i].action = req[i].action

C4_Witness ==
    /\ Done(1) /\ req[1].action = SFailback /\ req[1].force = {FALSE}
    /\ req[1].target_region = SUsWest2 /\ probe[1] = "ok" /\ put[1] = "ok"
    /\ Succeeded(1)

\* C5: the table holds at most one failover record, the one of the most recent
\* put_item that succeeded; an invocation that was rejected leaves it as it was.
C5_SingleSlot ==
    /\ Cardinality(store[FailoverTable]) <= 1
    /\ store[FailoverTable] = lastPut
    /\ \A x \in store[FailoverTable] : x.key = "failover_status"
    /\ \A i \in Invocations :
           (Done(i) /\ Failed(i)) => store[FailoverTable] = before[i]

\* a write that replaced the record of an earlier invocation
C5_Witness ==
    /\ Done(1) /\ put[1] = "ok" /\ before[1] # {}
    /\ before[1] # store[FailoverTable]
    /\ \E x \in before[1], y \in store[FailoverTable] :
           x.action # y.action /\ x.target_region # y.target_region

\* C6: every request that reaches handle_request is answered with a Response
\* whose status is "success" or "failed", whatever the backend did (stated as
\* in the claim).
C6_AlwaysStructured ==
    \A i \in Invocations :
        (Done(i) /\ Handled(i)) => (result[i].ok /\ result[i].status \in {"success", "failed"})

\* C7: handle_request with a valid action and a target_region that
\* validate_region rejects answers "failed" and writes nothing, also when
\* forced (stated as in the claim).
C7_InvalidRegionRejected ==
    \A i \in Invocations :
        (Done(i) /\ Handled(i) /\ ValidAction(i) /\ ~validate_region(req[i].target_region)) =>
            (Failed(i) /\ NoWrite(i))

\* C8: check_health never returns an error; a request that is not forced and
\* whose listing call errors or times out is rejected as unhealthy with a
\* Response, and writes nothing.
C8_ProbeFailsClosed ==
    /\ \A o \in ListTablesOutcomes :
           check_health(o).ok /\ (o # "ok" => ~check_health(o).value)
    /\ \A i \in Invocations :
           (Done(i) /\ Unhealthy(i)) => (result[i].ok /\ Failed(i) /\ NoWrite(i))

C8_Witness ==
    /\ Done(1) /\ req[1].action = SFailback /\ req[1].force = {FALSE}
    /\ probe[1] = "error" /\ Failed(1) /\ put[1] = "none"

\* C9: when two invocations both complete their write, the record in the table
\* is one of the two records as a whole, the one whose put_item landed last.
C9_LastWriterWins ==
    /\ store[FailoverTable] = lastPut
    /\ \A i \in Invocations : \A j \in Invocations \ {i} :
           (Done(i) /\ Done(j) /\ put[i] = "ok" /\ put[j] = "ok") =>
               /\ store[FailoverTable] \in {sent[i], sent[j]}
               /\ store[FailoverTable] # sent[i] => before[i] = sent[j]

\* the record of invocation 2 was built before the one of invocation 1 and is
\* the one that stays: its put_item landed last
C9_Witness ==
    /\ Done(1) /\ Done(2) /\ put[1] = "ok" /\ put[2] = "ok"
    /\ req[1].action = SFailover /\ req[2].action = SFailback
    /\ req[1].target_region = SUsWest2 /\ req[2].target_region = SUsEast1
    /\ \E x \in sent[1], y \in sent[2] : y.timestamp < x.timestamp
    /\ store[FailoverTable] = sent[2]
(***************************************************************************)
(* Properties of the data validator                                        *)
(***************************************************************************)
\* C10: every run of run_validation ends with a report whose consistency_score
\* lies in [0, 100] (stated as in the claim).
C10_ScoreInRange ==
    vpc = "done" =>
        /\ vreport.kind = "response"
        /\ ScoreGeq(vreport.results.consistency_score, 0)
        /\ ScoreLeq(vreport.results.consistency_score, 100)

Reported == vpc = "done" /\ vreport.kind = "response"
Selected == TablesToValidate(vreq.table_name)

\* C11: a run whose records_checked is 0 ends with a report whose
\* consistency_score is 100.0 and whose status is Healthy, whatever
\* mismatches_found is.
C11_EmptyRunHealthy ==
    (vpc = "done" /\ vtotals.records = 0) =>
        /\ vreport.kind = "response"
        /\ vreport.results.records_checked = 0
        /\ vreport.results.consistency_score.hi = 0
        /\ vreport.results.consistency_score.num = vreport.results.consistency_score.den
        /\ vreport.status = "healthy"

\* an empty primary table against 10 items in DR: 10 mismatches over 0 records
C11_Witness ==
    /\ Reported
    /\ vreport.results.tables_validated = 1
    /\ vreport.results.records_checked = 0
    /\ vreport.results.mismatches_found = 10
    /\ vreport.status = "healthy"

\* C12: every report has status Healthy exactly when its consistency_score is
\* at least 95.0 and Degraded otherwise; no other status occurs.
C12_StatusFromScore ==
    Reported =>
        LET score == vreport.results.consistency_score
            atLeast95 == score.hi = 1 \/ 100 * score.num >= 95 * score.den
        IN  /\ vreport.status \in {"healthy", "degraded"}
            /\ vreport.status = "healthy" <=> atLeast95
            /\ vreport.status = "degraded" <=> ~atLeast95

\* 10 mismatches over 200 records: exactly 95.0, and Healthy
C12_Witness ==
    /\ Reported
    /\ vreport.results.records_checked = 200
    /\ vreport.results.mismatches_found = 10
    /\ vreport.status = "healthy"

Applied(f) == pcase = f /\ pout # {}
Output == CHOOSE o \in pout : TRUE
Mentions(list, msg) == \E k \in 1..Len(list) : list[k] = msg
\* the four conditions as the contract words them
LowScore(results) ==
    ~(results.consistency_score.hi = 1
      \/ 100 * results.consistency_score.num >= 95 * results.consistency_score.den)
HighLag(results) == \E lag \in results.replication_lag_seconds : lag > 60
OldLastBackup(results) ==
    \E age \in results.backup_status.last_backup_age_secs : age > 24 * 60 * 60
OldOldestBackup(results) ==
    \E age \in results.backup_status.oldest_backup_age_secs : age > 30 * 24 * 60 * 60

\* C13: generate_recommendations never returns an empty list; the list is
\* exactly the all-clear message if and only if none of the four rules fired,
\* and the all-clear message never stands next to another message.
C13_AllClearIffNothingFired ==
    Applied("generate_recommendations") =>
        LET noneFired == /\ ~LowScore(pin) /\ ~HighLag(pin)
                         /\ ~OldLastBackup(pin) /\ ~OldOldestBackup(pin)
        IN  /\ Output # <<>>
            /\ Output = <<MsgAllClear>> <=> noneFired
            /\ Mentions(Output, MsgAllClear) => Len(Output) = 1

\* every value sits on its threshold (95.0, 60 s, 24 h, 30 d): all clear
C13_Witness ==
    /\ Applied("generate_recommendations")
    /\ pin.records_checked = 100 /\ pin.mismatches_found = 5
    /\ pin.replication_lag_seconds = {60}
    /\ pin.backup_status.last_backup_age_secs = {86400}
    /\ pin.backup_status.oldest_backup_age_secs = {2592000}
    /\ Output = <<MsgAllClear>>

\* C14: each rule fires on its own condition alone, strictly beyond its
\* threshold, never on an absent value, and the messages of the rules that
\* fired come in the order consistency, lag, backup age, retention.
C14_RulesIndependentInOrder ==
    Applied("generate_recommendations") =>
        LET expected ==
                (IF LowScore(pin) THEN <<MsgConsistency>> ELSE <<>>)
                \o (IF HighLag(pin) THEN <<MsgLag>> ELSE <<>>)
                \o (IF OldLastBackup(pin) THEN <<MsgLastBackup>> ELSE <<>>)
                \o (IF OldOldestBackup(pin) THEN <<MsgRetention>> ELSE <<>>)
        IN  /\ Mentions(Output, MsgConsistency) <=> LowScore(pin)
            /\ Mentions(Output, MsgLag) <=> HighLag(pin)
            /\ Mentions(Output, MsgLastBackup) <=> OldLastBackup(pin)
            /\ Mentions(Output, MsgRetention) <=> OldOldestBackup(pin)
            /\ expected # <<>> => Output = expected

\* lag and retention fire one second past their thresholds, between them the
\* backup-age rule stays silent on its threshold, and so does the score rule
C14_Witness ==
    /\ Applied("generate_recommendations")
    /\ pin.records_checked = 100 /\ pin.mismatches_found = 5
    /\ pin.replication_lag_seconds = {61}
    /\ pin.backup_status.last_backup_age_secs = {86400}
    /\ pin.backup_status.oldest_backup_age_secs = {2592001}
    /\ Output = <<MsgLag, MsgRetention>>

\* the tables whose sampling succeeded, as validate_table_data returned them
Succeeded_Tables == SelectSeq(vhist.sampled, LAMBDA o : o.ok)
Failed_Tables == SelectSeq(vhist.sampled, LAMBDA o : ~o.ok)
RECURSIVE SumPrimary(_)
SumPrimary(outs) ==
    IF outs = <<>> THEN 0
    ELSE Head(outs).validation.primary_count + SumPrimary(Tail(outs))
RECURSIVE SumMismatches(_)
SumMismatches(outs) ==
    IF outs = <<>> THEN 0
    ELSE LET v == Head(outs).validation
             delta == IF v.primary_count >= v.dr_count
                      THEN v.primary_count - v.dr_count
                      ELSE v.dr_count - v.primary_count
         IN  delta + Len(v.sample_mismatches) + SumMismatches(Tail(outs))
\* the report's totals are those of the tables whose sampling succeeded
Aggregated ==
    /\ vreport.results.tables_validated = Len(Succeeded_Tables)
    /\ vreport.results.records_checked = SumPrimary(Succeeded_Tables)
    /\ vreport.results.mismatches_found = SumMismatches(Succeeded_Tables)
\* the only table sampled had counts 100/90 and two sampled mismatches
OneTable100v90 ==
    /\ Len(vhist.sampled) = 1
    /\ vhist.sampled[1].ok
    /\ vhist.sampled[1].validation.primary_count = 100
    /\ vhist.sampled[1].validation.dr_count = 90
    /\ Len(vhist.sampled[1].validation.sample_mismatches) = 2

\* C15: a report gives records_checked as the sum of primary_count and
\* mismatches_found as the sum of |primary_count - dr_count| + sampled
\* mismatches over exactly the tables whose sampling succeeded, and
\* tables_validated as their number; one table with 100/90 and 2 sampled
\* mismatches gives 12 mismatches, 100 records, 88.0 and Degraded.
C15_TotalsAreSums ==
    Reported =>
        /\ Aggregated
        /\ OneTable100v90 =>
               /\ vreport.results.mismatches_found = 12
               /\ vreport.results.records_checked = 100
               /\ vreport.results.consistency_score.hi = 0
               /\ 100 * vreport.results.consistency_score.num
                      = 88 * vreport.results.consistency_score.den
               /\ vreport.status = "degraded"

\* the scenario of the contract, with the low-consistency recommendation
C15_Witness ==
    /\ Reported
    /\ OneTable100v90
    /\ vreport.results.mismatches_found = 12
    /\ vreport.status = "degraded"
    /\ Mentions(vreport.recommendations, MsgConsistency)

\* C16: when the sampling of a selected table fails, the run still ends with
\* a report; every selected table was sampled, the failed one adds nothing
\* to the totals and the others are aggregated (stated as in the claim).
C16_TableFailureTolerated ==
    (vpc = "done" /\ Failed_Tables # <<>>) =>
        /\ vreport.kind = "response"
        /\ Len(vhist.sampled) = Len(Selected)
        /\ Aggregated

\* score a >= score b, for two scores over the same record total
ScoreAtLeast(a, b) == a.hi > b.hi \/ (a.hi = b.hi /\ a.num >= b.num)

\* C17: over a fixed records_checked > 0 the consistency_score does not grow
\* when mismatches_found grows, whatever the two mismatch totals are (stated
\* as in the claim).
C17_ScoreMonotone ==
    Applied("consistency_score") =>
        /\ ~Output.fewer.panic
        /\ ~Output.more.panic
        /\ ScoreAtLeast(Output.fewer, Output.more)

\* C18: validate_table_data returns an error, and with it no TableValidation,
\* whenever the item count of the primary or of the DR region cannot be read.
C18_CountFailureIsError ==
    Applied("validate_table_data") =>
        ((~pin.observation.primary_count.ok \/ ~pin.observation.dr_count.ok)
            => Output = [ok |-> FALSE])

\* the primary count and the scan succeed, an item is missing in DR, the DR
\* count fails: an error
C18_Witness ==
    /\ Applied("validate_table_data")
    /\ pin.observation.primary_count = CountOk(100)
    /\ pin.observation.dr_count = CountErr
    /\ pin.observation.scan = ScanOk(<<Sampled(<<"a">>, "not_found")>>)
    /\ ~Output.ok

\* the sampled items whose DR lookup answered not found or failed
Unconfirmed(page) ==
    SelectSeq(page, LAMBDA item : item.id # {} /\ item.lookup \in {"not_found", "error"})
ScannedPage == IF pin.observation.scan.items = {} THEN <<>>
               ELSE CHOOSE page \in pin.observation.scan.items : TRUE

\* C19: when the counts and the scan succeed, validate_table_data succeeds
\* whatever the lookups answer, and its sample_mismatches hold one string for
\* each sampled item whose DR lookup answered not found or failed, naming
\* the item's id, and none for an item found (stated as in the claim).
C19_LookupFailuresRecorded ==
    (/\ Applied("validate_table_data")
     /\ pin.observation.primary_count.ok
     /\ pin.observation.dr_count.ok
     /\ pin.observation.scan.ok) =>
        /\ Output.ok
        /\ Len(Output.validation.sample_mismatches) = Len(Unconfirmed(ScannedPage))
        /\ \A k \in 1..Len(Output.validation.sample_mismatches) :
               k <= Len(Unconfirmed(ScannedPage)) =>
                   Contains(Output.validation.sample_mismatches[k],
                            CHOOSE i \in Unconfirmed(ScannedPage)[k].id : TRUE)

\* C20: every run measures the replication lag exactly once, whatever tables
\* were selected and however their sampling went; when the measurement fails
\* the run still ends with a report, whose replication_lag_seconds is absent
\* (stated as in the claim).
C20_LagMeasuredOnceAndTolerated ==
    vpc = "done" =>
        /\ vhist.lag_calls = 1
        /\ vhist.lag_failed =>
               /\ vreport.kind = "response"
               /\ vreport.results.replication_lag_seconds = {}

\* the fields of the report that do not come from the backup metadata are
\* those the tables sampled and the lag measured determine
RestOfReportAsObserved ==
    /\ Aggregated
    /\ vreport.results.replication_lag_seconds = vlag
    /\ vreport.results.consistency_score =
           ConsistencyScore(vbuild, SumPrimary(Succeeded_Tables),
                            SumMismatches(Succeeded_Tables))
    /\ vreport.status = "healthy" <=>
           (\/ vreport.results.consistency_score.hi = 1
            \/ 100 * vreport.results.consistency_score.num
                   >= 95 * vreport.results.consistency_score.den)

\* C21: when the retrieval of the backup metadata fails, the run still ends
\* with a report; it has backup_count 0 and both ages absent, and its counts,
\* score, status and lag are what they are when the retrieval succeeds
\* (stated as in the claim).
C21_BackupFailureTolerated ==
    (vpc = "done" /\ vhist.backup_failed) =>
        /\ vreport.kind = "response"
        /\ vreport.results.backup_status.backup_count = 0
        /\ vreport.results.backup_status.last_backup_age_secs = {}
        /\ vreport.results.backup_status.oldest_backup_age_secs = {}
        /\ RestOfReportAsObserved

\* C22: every run tries to publish both metrics, the second whatever became
\* of the first, and ends with a report that no outcome of the two calls
\* changes (stated as in the claim).
C22_BothMetricsAttempted ==
    vpc = "done" =>
        /\ Len(vhist.published) = 2
        /\ vhist.published[1].name = "ValidationConsistencyScore"
        /\ vhist.published[2].name = "ValidationMismatches"
        /\ vreport.kind = "response"
        /\ RestOfReportAsObserved

\* the tables a sync is due for: sampled successfully, with a mismatch count > 0
RECURSIVE NeedingSync(_)
NeedingSync(outs) ==
    IF outs = <<>> THEN <<>>
    ELSE (IF Head(outs).ok /\ SumMismatches(<<Head(outs)>>) > 0
          THEN <<Head(outs).validation.table_name>> ELSE <<>>)
         \o NeedingSync(Tail(outs))

\* what a run ends with, given what the backends answered and nothing else
OutcomeFor(build, mode, sampled, lag, backup) ==
    LET ok == SelectSeq(sampled, LAMBDA o : o.ok)
        score == ConsistencyScore(build, SumPrimary(ok), SumMismatches(ok))
        results == [tables_validated |-> Len(ok),
                    records_checked |-> SumPrimary(ok),
                    mismatches_found |-> SumMismatches(ok),
                    replication_lag_seconds |-> lag,
                    backup_status |-> backup,
                    consistency_score |-> score]
    IN  IF score.panic THEN [kind |-> "panic"]
        ELSE [kind |-> "response",
              status |-> ValidationStatus(score),
              validation_mode |-> mode,
              results |-> results,
              recommendations |-> generate_recommendations(results)]

\* C29: the sync step is invoked for exactly the successfully sampled tables
\* whose mismatch count is > 0 when the action is Sync, and never when it is
\* Validate; it sends no write to either region (the only writes of a run are
\* those of the lag measurement); and the run ends as the backends' answers
\* alone determine, whichever the action.
C29_SyncOnlyCounts ==
    /\ vreq.action = "validate" => vtotals.synced = <<>>
    /\ (vreq.action = "sync" /\ vpc # "idle") => vtotals.synced = NeedingSync(vhist.sampled)
    /\ \A k \in 1..Len(vhist.writes) : vhist.writes[k].by = "check_replication_lag"
    /\ Len(vhist.writes) <= 2
    /\ vpc = "done" =>
           vreport = OutcomeFor(vbuild, vreq.validation_mode, vhist.sampled, vlag, vbackup)

\* Sync over both tables: one has more items in the primary than in DR and
\* is synced, the other matches and is not
C29_Witness ==
    /\ Reported
    /\ vreq.action = "sync"
    /\ Len(vhist.sampled) = 2
    /\ vhist.sampled[1].ok /\ vhist.sampled[2].ok
    /\ vhist.sampled[1].validation.primary_count = 100
    /\ vhist.sampled[1].validation.dr_count = 90
    /\ vtotals.synced = <<AppTable>>
    /\ vreport.results.mismatches_found = 10

(***************************************************************************)
(* Properties of the health check                                          *)
(***************************************************************************)
\* C23: a probe asked about region R answers with the state of R's own
\* DynamoDB endpoint, whatever region the function runs in: the health check
\* built with new(Some(R)) and FailoverService::check_health(R) alike (stated
\* as in the claim).
C23_ProbeReachesAskedRegion ==
    \A R \in Regions :
        (hpc = "done" /\ hreq.region = {R}) =>
            /\ hresp.ok
            /\ hresp.region = R
            /\ hresp.services.dynamodb = hworld[R]
            /\ check_health(ListTables(hworld, FailoverProbeRegion(henv, R))).value
                   = hworld[R]

\* C24: run_health_check always answers, with status "healthy" exactly when
\* the DynamoDB check and the S3 check both succeeded and "unhealthy"
\* otherwise, whatever the replication lag and the outcome of the publish.
C24_StatusFromTwoChecks ==
    hpc = "done" =>
        /\ hresp.ok
        /\ hresp.status \in {"healthy", "unhealthy"}
        /\ hresp.status = "healthy" <=> (hcalls.dynamodb = "ok" /\ hcalls.s3 = "ok")

\* healthy with a lag of 100000 seconds and a publish that failed
C24_Witness ==
    /\ hpc = "done"
    /\ hresp.ok
    /\ hresp.status = "healthy"
    /\ hresp.services.replication_lag = {100000}
    /\ hcalls.publish = "error"
    /\ hmetrics = <<>>

(***************************************************************************)
(* Properties of the validator's check_replication_lag                     *)
(***************************************************************************)
SentinelWritten == lhist.put = "ok"
LagMeasured == lpc = "done" /\ lresult.ok /\ lresult.lag # {}

\* C25: when the sentinel became visible in DR, the lag returned is the time
\* from its write into the primary to the first read that saw it (stated as
\* in the claim).
C25_LagIsWriteToFirstRead ==
    LagMeasured =>
        /\ lhist.written # {}
        /\ lhist.seen # {}
        /\ \A w \in lhist.written, r \in lhist.seen : lresult.lag = {r - w}

\* C26: the loop makes at most 10 reads and none after the one that saw the
\* sentinel; after the tenth only the sleep, the delete and the return are
\* left; when no read saw the sentinel the result is Ok(None).
C26_AtMostTenPolls ==
    /\ lattempts <= 10
    /\ lattempts = 10 => lpc \in {"sleep", "delete", "done"}
    /\ \A k \in lhist.found_at : lattempts = k /\ lpc \in {"delete", "done"}
    /\ (lpc = "done" /\ SentinelWritten /\ lhist.found_at = {}) =>
           /\ lattempts = 10
           /\ lresult = [ok |-> TRUE, lag |-> {}]

\* ten reads, none of which saw the sentinel: Ok(None)
C26_Witness ==
    /\ lpc = "done"
    /\ SentinelWritten
    /\ lattempts = 10
    /\ lhist.found_at = {}
    /\ lresult = [ok |-> TRUE, lag |-> {}]

\* C27: the time check_replication_lag spends sleeping never exceeds
\* poll_interval x max_attempts = 1 s x 10 (stated as in the claim).
C27_WaitWithinBudget == lhist.waited <= 1 * 10

\* C28: once the sentinel was written, exactly one delete_item is sent, after
\* the polling has ended, and whatever it returns the result is Ok with the
\* lag the polling found; nothing is deleted before, or when the put failed.
C28_OneDeleteAfterPolling ==
    /\ lpc # "done" => lhist.deletes = <<>>
    /\ ~SentinelWritten => lhist.deletes = <<>>
    /\ (lpc = "done" /\ SentinelWritten) =>
           /\ Len(lhist.deletes) = 1
           /\ lresult.ok
           /\ lresult.lag = llag
           /\ lhist.found_at = {} => lresult.lag = {}
           /\ \A r \in lhist.seen, t \in lstart : lresult.lag = {r - t}

\* the sentinel was seen, its deletion failed, the lag is returned all the same
C28_Witness ==
    /\ lpc = "done"
    /\ SentinelWritten
    /\ lhist.found_at # {}
    /\ lhist.deletes = <<"error">>
    /\ lresult.ok
    /\ lresult.lag # {}

(***************************************************************************)
(* Properties of execute_failover and execute_failback                     *)
(***************************************************************************)
\* what an execution decided: "error", "reject" or "write"
Decision(o) ==
    IF ~o.result.ok THEN "error"
    ELSE IF o.result.status = "failed" THEN "reject"
    ELSE "write"

\* the items with the action of the status record set to tag
Retagged(items, tag) ==
    {IF x.key = "failover_status" THEN [x EXCEPT !.action = tag] ELSE x : x \in items}

\* C30: handed the same target region, force flag, probe result and store
\* outcome, execute_failover and execute_failback decide alike (reject, write
\* or error), make the same remote calls and leave the same items in the
\* store but for the action of the record written; their responses carry the
\* same status and timestamp, the tags "failover" and "failback", the same
\* message on a reject and the same error.
C30_FailoverFailbackAlike ==
    Applied("execute") =>
        LET fo == Output.failover
            fb == Output.failback
        IN  /\ Decision(fo) = Decision(fb)
            /\ fo.calls = fb.calls
            /\ Decision(fo) = "error" => fo.result = fb.result
            /\ Decision(fo) # "error" =>
                   /\ fo.result.status = fb.result.status
                   /\ fo.result.timestamp = fb.result.timestamp
                   /\ fo.result.action = SFailover
                   /\ fb.result.action = SFailback
                   /\ fb.result = [fo.result EXCEPT
                                      !.action = SFailback,
                                      !.message = fb.result.message]
            /\ Decision(fo) = "reject" => fo.result.message = fb.result.message
            /\ Decision(fo) # "write" => fo.items = pin.items /\ fb.items = pin.items
            /\ Decision(fo) = "write" =>
                   /\ fb.items = Retagged(fo.items, SFailback)
                   /\ fo.items = Retagged(fb.items, SFailover)
                   /\ FailoverItem(pin.target_region, SFailover, pin.t) \in fo.items
                   /\ FailoverItem(pin.target_region, SFailback, pin.t) \in fb.items
                   /\ Cardinality(fo.items) = 1 /\ Cardinality(fb.items) = 1

\* a healthy target, not forced, over an earlier record: both write, and the
\* stores differ in the action of the record
C30_Witness ==
    /\ Applied("execute")
    /\ ~pin.force
    /\ pin.list_outcome = "ok"
    /\ pin.put_outcome = "ok"
    /\ pin.items # {}
    /\ pin.target_region = SUsWest2
    /\ Decision(Output.failover) = "write"
    /\ Decision(Output.failback) = "write"
    /\ Output.failover.calls = <<"list_tables", "put_item">>
    /\ Output.failover.items # Output.failback.items
    /\ Output.failover.items # pin.items

(***************************************************************************)
(* Properties of the backup metadata shared by the backup manager, the     *)
(* failover controller and the validator                                   *)
(***************************************************************************)
Validated == wstatus.kind = "status"

\* C31: with no backup ever recorded, a validation reports backup_count = 0
\* and no last_backup_age_hours nor oldest_backup_days, whatever failovers
\* and failbacks have completed before it (stated as in the claim).
C31_StatusRecordIsNoBackup ==
    Validated =>
        /\ wstatus.status.backup_count = 0
        /\ wstatus.status.last_backup_age_secs = {}
        /\ wstatus.status.oldest_backup_age_secs = {}

\* the timestamps stored in the items a validation's scan returned
StoredTimestamps(items) == {x.timestamp.value : x \in items}

\* C32: a validation whose scan returned the records run_backup wrote counts
\* them all in backup_count and reports both ages as present, computed from
\* the newest and the oldest timestamp stored in them (stated as in the claim).
C32_BackupRecordGivesAges ==
    (Validated /\ wstatus.scanned /\ wstatus.seen # {}) =>
        /\ wstatus.status.backup_count = Cardinality(wstatus.seen)
        /\ wstatus.status.last_backup_age_secs =
               {wstatus.at - SetMax(StoredTimestamps(wstatus.seen))}
        /\ wstatus.status.oldest_backup_age_secs =
               {wstatus.at - SetMin(StoredTimestamps(wstatus.seen))}

\* C33: every metadata record run_backup wrote, in the metadata table the
\* service is configured with, has its blob in the service's bucket, and
\* run_backup writes to no other table; a run that failed at a scan, at the
\* decoding of a page or at the upload left the tables as it found them; and
\* run_backup answers "success" only when the upload and then the metadata
\* write both succeeded.
C33_MetadataAfterBlob ==
    /\ \A x \in mstore[bsvc.metadata_table] :
           Blob(bsvc.backup_bucket, x.table_name, x.key) \in mbucket
    /\ \A t \in MetaTables \ {bsvc.metadata_table} : mstore[t] = {}
    /\ \A o \in mbucket : o.bucket = bsvc.backup_bucket
    /\ (bpc = "done" /\ ~bresp.ok /\ bresp.error \in {"scan", "from_items", "put_object"}) =>
           /\ bhist.before = {mstore}
           /\ ~bhist.recorded
    /\ (bpc = "recording") => bhist.uploaded
    /\ (bpc = "done" /\ bresp.ok) =>
           /\ bresp.status = "success"
           /\ bhist.uploaded /\ bhist.recorded
           /\ \E x \in mstore[bsvc.metadata_table] :
                  /\ x.key = bresp.backup_id
                  /\ x.items_count = bresp.items_backed_up
                  /\ Blob(bsvc.backup_bucket, breq.table_name, bresp.backup_id)
                         \in mbucket

\* with METADATA_TABLE and BACKUP_BUCKET set, a second backup succeeds after
\* a first one: two records, two blobs
C33_Witness ==
    /\ bpc = "done"
    /\ bresp.ok
    /\ bresp.items_backed_up = 2
    /\ bsvc.metadata_table = OtherTable
    /\ Cardinality(mstore[OtherTable]) = 2
    /\ Cardinality(mbucket) = 2
    /\ bhist.before # {[t \in MetaTables |-> {}]}

\* C34: for every request, probe outcome and store outcome the binary's
\* FailoverService and the library's return the same result and send the
\* same put_item: same table, same key attribute, same identifier, same
\* fields (stated as in the claim).
C34_BinaryIsLibrary ==
    Applied("function_handler") =>
        /\ Output.binary.result = Output.library.result
        /\ Output.binary.puts = Output.library.puts

(***************************************************************************)
(* Properties of the failover controller under interleaving                *)
(***************************************************************************)
\* invocation i has reached update_failover_status
ReachedWrite(i) == pc[i] = "writing" \/ sent[i] # {} \/ put[i] # "none"

\* C35: an invocation that is not forced reaches the write only after its own
\* probe, made of the target_region of its own request, returned healthy; one
\* that has not probed, or whose probe returned unhealthy, has sent nothing,
\* whatever the other invocation in flight is doing.
C35_ProbeBeforeWrite ==
    \A i \in Invocations :
        (pc[i] # "idle" /\ NotForced(i)) =>
            /\ ReachedWrite(i) =>
                   /\ probe[i] = "ok"
                   /\ check_health(probe[i]).value
                   /\ FailoverProbeRegion(CurrentRegion, req[i].target_region)
                          = req[i].target_region
                   /\ \A x \in sent[i] : x.target_region = req[i].target_region
            /\ probe[i] # "ok" => ~ReachedWrite(i)
            /\ pc[i] = "probing" => probe[i] = "none"

\* two invocations, neither forced, both probed healthy and both wrote, while
\* the probe of the second came back after the first had written
C35_Witness ==
    /\ Done(1) /\ Done(2)
    /\ NotForced(1) /\ NotForced(2)
    /\ probe[1] = "ok" /\ probe[2] = "ok"
    /\ put[1] = "ok" /\ put[2] = "ok"
    /\ req[1].target_region # req[2].target_region
    /\ store[FailoverTable] = sent[2]
    /\ before[2] = sent[1]

\* C36: among the Responses returned, status is "success" exactly when the
\* invocation's put_item of the failover record succeeded; a "failed"
\* Response comes from an invocation that sent no put_item and left the table
\* as it was; and the action of every Response is the action string of the
\* request.
C36_SuccessIffWritten ==
    \A i \in Invocations :
        /\ (Done(i) /\ result[i].ok) =>
               /\ result[i].status \in {"success", "failed"}
               /\ Succeeded(i) <=> put[i] = "ok"
               /\ Succeeded(i) => store[FailoverTable] = sent[i]
               /\ Failed(i) => NoWrite(i)
               /\ Failed(i) => (~ValidAction(i) \/ (NotForced(i) /\ Unhealthy(i)))
               /\ result[i].action = req[i].action
        /\ (Done(i) /\ put[i] = "ok") => Succeeded(i)

\* force omitted, the probe healthy, the write accepted over an earlier record
C36_Witness ==
    /\ Done(1) /\ req[1].action = SFailover /\ req[1].force = {}
    /\ req[1].target_region = SUsEast1
    /\ probe[1] = "ok" /\ put[1] = "ok"
    /\ Succeeded(1) /\ result[1].action = SFailover
    /\ before[1] # {} /\ before[1] # store[FailoverTable]

(***************************************************************************)
(* Properties of the data validator when sampling fails                    *)
(***************************************************************************)
\* C37: a run in which validate_table_data failed for every selected table
\* still ends with a report, whatever the lag measurement, the backup scan
\* and the two metric publications did: no table validated, no record
\* checked, no mismatch, consistency_score 100.0, status Healthy, and
\* nothing synced.
C37_AllTablesFailedHealthy ==
    (vpc = "done" /\ Succeeded_Tables = <<>>) =>
        /\ Len(vhist.sampled) = Len(Selected)
        /\ vreport.kind = "response"
        /\ vreport.results.tables_validated = 0
        /\ vreport.results.records_checked = 0
        /\ vreport.results.mismatches_found = 0
        /\ ~vreport.results.consistency_score.panic
        /\ vreport.results.consistency_score.hi = 0
        /\ vreport.results.consistency_score.num = vreport.results.consistency_score.den
        /\ vreport.results.consistency_score.den > 0
        /\ vreport.status = "healthy"
        /\ vreport.validation_mode = vreq.validation_mode
        /\ RestOfReportAsObserved
        /\ vtotals.synced = <<>>

\* both default tables failed, and so did the lag measurement, the backup
\* scan and both publications, in a debug build with action Sync
C37_Witness ==
    /\ Reported
    /\ vbuild = "debug"
    /\ vreq.action = "sync"
    /\ Len(vhist.sampled) = 2
    /\ ~vhist.sampled[1].ok /\ ~vhist.sampled[2].ok
    /\ vhist.lag_failed
    /\ vhist.backup_failed
    /\ Len(vhist.published) = 2
    /\ vhist.published[1].outcome = "error" /\ vhist.published[2].outcome = "error"
    /\ vmetrics = <<>>
    /\ vreport.status = "healthy"

\* both counts were read and the sample scan failed
CountsButNoScan(obs) == obs.primary_count.ok /\ obs.dr_count.ok /\ ~obs.scan.ok
AllAnswered(obs) == obs.primary_count.ok /\ obs.dr_count.ok /\ obs.scan.ok

\* the totals of the tables for which all three calls answered, from what the
\* regions answered
RECURSIVE AnsweredTables(_)
AnsweredTables(observed) ==
    IF observed = <<>> THEN 0
    ELSE (IF AllAnswered(Head(observed)) THEN 1 ELSE 0) + AnsweredTables(Tail(observed))
RECURSIVE AnsweredRecords(_)
AnsweredRecords(observed) ==
    IF observed = <<>> THEN 0
    ELSE (IF AllAnswered(Head(observed))
          THEN get_table_item_count(Head(observed).primary_count) ELSE 0)
         + AnsweredRecords(Tail(observed))
RECURSIVE AnsweredCountGaps(_)
AnsweredCountGaps(observed) ==
    IF observed = <<>> THEN 0
    ELSE (IF AllAnswered(Head(observed))
          THEN AbsDiff(get_table_item_count(Head(observed).primary_count),
                       get_table_item_count(Head(observed).dr_count))
          ELSE 0)
         + AnsweredCountGaps(Tail(observed))

\* C38: when both item counts of a table were read and its sample scan
\* failed, validate_table_data fails as a whole and the table is left out:
\* the report counts only the tables for which all three calls answered, and
\* the counts read for the failed table add nothing to records_checked nor
\* to mismatches_found.
C38_ScanFailureDropsTable ==
    /\ Len(vhist.observed) = Len(vhist.sampled)
    /\ \A k \in 1..Len(vhist.observed) :
           /\ CountsButNoScan(vhist.observed[k]) => vhist.sampled[k] = [ok |-> FALSE]
           /\ vhist.sampled[k].ok <=> AllAnswered(vhist.observed[k])
    /\ vpc # "idle" =>
           /\ Len(vvalidations) = AnsweredTables(vhist.observed)
           /\ vtotals.records = AnsweredRecords(vhist.observed)
           /\ vtotals.mismatches >= AnsweredCountGaps(vhist.observed)
           /\ vtotals.mismatches <= AnsweredCountGaps(vhist.observed)
                                       + MaxSample * AnsweredTables(vhist.observed)
    /\ Reported =>
           /\ vreport.results.tables_validated = AnsweredTables(vhist.observed)
           /\ vreport.results.records_checked = AnsweredRecords(vhist.observed)
           /\ vreport.results.mismatches_found = vtotals.mismatches

\* the first table had counts 100 and 90 and its scan failed; the second was
\* validated without a mismatch: the report shows the second table only
C38_Witness ==
    /\ Reported
    /\ Len(vhist.observed) = 2
    /\ CountsButNoScan(vhist.observed[1])
    /\ get_table_item_count(vhist.observed[1].primary_count) = 100
    /\ get_table_item_count(vhist.observed[1].dr_count) = 90
    /\ AllAnswered(vhist.observed[2])
    /\ vreport.results.tables_validated = 1
    /\ vreport.results.records_checked = get_table_item_count(vhist.observed[2].primary_count)
    /\ vreport.results.records_checked > 0
    /\ vreport.results.mismatches_found = 0
====
